---- MODULE Spec2Model ----
(***************************************************************************)
(* A model of the headless Wayland compositor of xpra                      *)
(* (xpra/wayland/compositor.pyx): the event bus, the surface registry,     *)
(* the commit / readback path and the compositor lifecycle.                *)
(*                                                                         *)
(* The compositor library (wlroots / libwayland) is the environment: its   *)
(* objects are the `xdg` records, and each of its signals is an action     *)
(* that first applies the library's own state change and then runs the     *)
(* handler of compositor.pyx that is linked into that signal's list.       *)
(* Handlers are operators from a program state `st` to the program state   *)
(* after the handler, so that a library operation that raises several      *)
(* signals (destroying a mapped surface, destroying all clients) is one    *)
(* action.                                                                 *)
(***************************************************************************)
EXTENDS Integers, Sequences, FiniteSets, TLC

\* ---------------------------------------------------------------- bounds
\* number of native XDG surfaces the clients create in one behaviour
MaxNative == 2
\* no signal is raised, and no compositor initialized, once the library has
\* raised this many signals
MaxSignals == 4
\* number of bus operations recorded in one behaviour of SpecBus
MaxBusOps == 4
\* output handles of the backend
MaxOutputs == 2
\* set_layout calls made in one behaviour of SpecKeyboard
MaxLayoutCalls == 3

\* ------------------------------------------------------ program constants
\* default size of the first configure, xdg_surface_commit
DefaultWidth == 800
DefaultHeight == 600
\* bytes per pixel of the readback format, capture_surface_pixels
BytesPerPixel == 4
\* bits per pixel handed to ImageWrapper, capture_surface_pixels
PixelDepth == 32

VARIABLES
    debug,            \* cdef bint debug = log.is_debug_enabled()
    wid,              \* cdef unsigned long wid: the process-global counter
    srv,              \* WaylandCompositor.srv: which handles are non-NULL,
                      \* which compositor-level listeners are linked
    running,          \* the backend was started and the display still exists
    xdg,              \* the library's XDG surfaces, by native handle
    surface,          \* the xdg_surface records of compositor.pyx, by native handle
    events,           \* every emit(), in order: [name, wid, args]
    event_listeners,  \* the bus: event name -> list of callbacks
    calls,            \* every callback invocation made by emit(), in order
    created,          \* surfaces of role None or Toplevel created since
                      \* initialize() last succeeded
    signals,          \* the number of signals the library has raised so far
    objects,          \* the lifecycle objects of the library that exist
    teardown,         \* what the last cleanup() call unlinked and destroyed, in
                      \* order (<<"return">>: it returned at once)
    faults,           \* the objects destroyed or unlinked when they were gone
    init_result,      \* what initialize() did, when it was the last call
    crashed,          \* the process dereferenced a NULL pointer
    probe,            \* SpecCommit: the damage and buffer of the commit under
                      \* test, the length of the event log before it, and
                      \* how many commits were made
    bus_ops,          \* the bus operations made so far, with the bus before each
    outputs,          \* the backend's outputs and their output records, by
                      \* output handle
    renders,          \* every wlr_scene_output_commit and
                      \* wlr_output_schedule_frame call, in order
    seat_focus,       \* the seat's keyboard focus: the handle of the XDG
                      \* surface whose wlr_surface is focused (0: none)
    last_focus,       \* the argument of the last WaylandKeyboard.focus call
    handed,           \* the handles the last embedder-facing operation of the
                      \* compositor passed on: <<callee, handle, status>>
    wayland_keyboard  \* the embedder's WaylandKeyboard, the XKB objects its
                      \* set_layout calls left alive, and what each call did

vars == <<debug, wid, srv, running, xdg, surface, events, event_listeners,
          calls, created, signals, objects, teardown, faults, init_result,
          crashed, probe, bus_ops, outputs, renders, seat_focus,
          last_focus, handed, wayland_keyboard>>

device_vars ==
    <<outputs, renders, seat_focus, last_focus, handed, wayland_keyboard>>

lifecycle_vars == <<objects, teardown, faults, init_result, crashed, probe>>

Natives == 1..MaxNative
Roles == {"None", "Toplevel", "Popup"}

\* ------------------------------------------------------------- event bus
EventNames == {"map", "commit"}
\* the embedder's callbacks: A and B return; Once unsubscribes itself from the
\* event it is invoked for (remove_event_listener(name, Once)), then returns;
\* Raise raises an exception
Callbacks == {"A", "B", "Once", "Raise"}

\* event_listeners.get(event_name, ())
Listeners(bus, event_name) ==
    IF event_name \in DOMAIN bus THEN bus[event_name] ELSE <<>>

\* the dictionary d with d[k] = v
DictSet(d, k, v) ==
    [x \in (DOMAIN d) \cup {k} |-> IF x = k THEN v ELSE d[x]]

\* the dictionary d without the key k
DictPop(d, k) ==
    [x \in (DOMAIN d) \ {k} |-> d[x]]

\* index of the first entry of the list equal to callback (0: none)
FirstIndex(callbacks, callback) ==
    IF \E i \in 1..Len(callbacks) : callbacks[i] = callback
    THEN CHOOSE i \in 1..Len(callbacks) :
            /\ callbacks[i] = callback
            /\ \A j \in 1..(i - 1) : callbacks[j] # callback
    ELSE 0

\* list.remove(callback): the list without its first matching entry
ListRemove(callbacks, callback) ==
    LET k == FirstIndex(callbacks, callback)
    IN  [i \in 1..(Len(callbacks) - 1) |->
            IF i < k THEN callbacks[i] ELSE callbacks[i + 1]]

add_event_listener(bus, event_name, callback) ==
    DictSet(bus, event_name, Append(Listeners(bus, event_name), callback))

\* remove_event_listener without the final event_listeners.pop(event_name)
remove_event_listener_keeps_empty(bus, event_name, callback) ==
    IF event_name \notin DOMAIN bus \/ Len(Listeners(bus, event_name)) = 0
    THEN bus
    ELSE IF FirstIndex(bus[event_name], callback) = 0
    THEN bus
    ELSE DictSet(bus, event_name, ListRemove(bus[event_name], callback))

\* index of the last entry of the list equal to callback (0: none)
LastIndex(callbacks, callback) ==
    IF \E i \in 1..Len(callbacks) : callbacks[i] = callback
    THEN CHOOSE i \in 1..Len(callbacks) :
            /\ callbacks[i] = callback
            /\ \A j \in (i + 1)..Len(callbacks) : callbacks[j] # callback
    ELSE 0

\* remove_event_listener unlinking the latest registration of the callback
remove_event_listener_last(bus, event_name, callback) ==
    IF event_name \notin DOMAIN bus \/ Len(Listeners(bus, event_name)) = 0
    THEN bus
    ELSE IF FirstIndex(bus[event_name], callback) = 0
    THEN bus
    ELSE LET k == LastIndex(bus[event_name], callback)
             l == bus[event_name]
             rest == SubSeq(l, 1, k - 1) \o SubSeq(l, k + 1, Len(l))
         IN  IF Len(rest) = 0
             THEN DictPop(bus, event_name)
             ELSE DictSet(bus, event_name, rest)

remove_event_listener(bus, event_name, callback) ==
    IF event_name \notin DOMAIN bus \/ Len(Listeners(bus, event_name)) = 0
    THEN bus
    ELSE IF FirstIndex(bus[event_name], callback) = 0
    THEN bus
    ELSE LET rest == ListRemove(bus[event_name], callback)
         IN  IF Len(rest) = 0
             THEN DictPop(bus, event_name)
             ELSE DictSet(bus, event_name, rest)

\* callback(*args), called by emit for event_name: the bus when it returns
invoke(bus, event_name, callback) ==
    IF callback = "Once"
    THEN remove_event_listener(bus, event_name, callback)
    ELSE bus

\* the callback raises instead of returning
raises(callback) == callback = "Raise"

\* the loop of emit with every callback called inside try / except
RECURSIVE emit_callbacks_catches(_, _, _, _)
emit_callbacks_catches(bus, event_name, i, called) ==
    LET callbacks == Listeners(bus, event_name)
    IN  IF i > Len(callbacks)
        THEN [bus |-> bus, called |-> called, raised |-> FALSE]
        ELSE emit_callbacks_catches(invoke(bus, event_name, callbacks[i]),
                                    event_name, i + 1,
                                    Append(called, callbacks[i]))

\* `for callback in callbacks: callback(*args)`, from position i on: the
\* iterator reads the list of the name as it is when it takes entry i
\* (a list taken out of the dictionary was emptied first); an exception of
\* a callback ends the loop and leaves emit
RECURSIVE emit_callbacks(_, _, _, _)
emit_callbacks(bus, event_name, i, called) ==
    LET callbacks == Listeners(bus, event_name)
    IN  IF i > Len(callbacks)
        THEN [bus |-> bus, called |-> called, raised |-> FALSE]
        ELSE IF raises(callbacks[i])
        THEN [bus |-> bus, called |-> Append(called, callbacks[i]),
              raised |-> TRUE]
        ELSE emit_callbacks(invoke(bus, event_name, callbacks[i]), event_name,
                            i + 1, Append(called, callbacks[i]))

\* emit(event_name, *args): logged, then the callbacks of the name in order
emit(st, event_name, w, args) ==
    LET done == emit_callbacks(st.event_listeners, event_name, 1, <<>>)
    IN  [st EXCEPT
            !.events = Append(@, [name |-> event_name, wid |-> w, args |-> args]),
            !.event_listeners = done.bus,
            !.calls = @ \o [i \in 1..Len(done.called) |->
                              [callback |-> done.called[i], name |-> event_name,
                               wid |-> w, args |-> args]]]

\* ------------------------------------------------------ surface registry
\* listeners every record links, and those linked only when a toplevel exists
SurfaceSignals == {"map", "unmap", "destroy", "commit"}
ToplevelSignals == {"request_move", "request_resize", "request_maximize",
                    "request_fullscreen", "request_minimize",
                    "set_title", "set_app_id"}

\* struct xdg_surface: no record, a calloc'ed record, a freed record
NoRecord ==
    [state |-> "none", wlr_xdg_surface |-> 0, scene_tree |-> FALSE,
     links |-> {}, width |-> 0, height |-> 0, wid |-> 0]

\* enum wlr_xdg_toplevel_decoration_v1_mode
DecorationModes == {"NONE", "CLIENT_SIDE", "SERVER_SIDE"}

\* the library's wlr_xdg_toplevel_decoration_v1 of a toplevel: none yet
NoDecoration == [exists |-> FALSE, requested_mode |-> "NONE", mode |-> "NONE"]

\* the library's wlr_xdg_surface (with its wlr_surface and toplevel)
AbsentXdg ==
    [state |-> "absent", role |-> "None", toplevel |-> FALSE,
     initialized |-> FALSE, configured |-> FALSE, mapped |-> FALSE,
     title |-> "", app_id |-> "", geometry |-> <<0, 0>>,
     configure_calls |-> 0, size |-> <<0, 0>>, activated |-> FALSE,
     decoration |-> NoDecoration,
     \* history of the handle, read by the properties only (commits: the
     \* commit signals raised while a listener was linked; unheard: a toplevel
     \* request signal was raised while no listener was linked)
     created_role |-> "None", ordinal |-> 0, ever_mapped |-> FALSE,
     requested |-> FALSE, commits |-> 0, unheard |-> FALSE]

\* the program state the handlers read and write
Cur ==
    [wid |-> wid, surface |-> surface, xdg |-> xdg, events |-> events,
     event_listeners |-> event_listeners, calls |-> calls]

Apply(st) ==
    /\ wid' = st.wid
    /\ surface' = st.surface
    /\ xdg' = st.xdg
    /\ events' = st.events
    /\ event_listeners' = st.event_listeners
    /\ calls' = st.calls

\* toplevel.title.decode("utf8") if (toplevel and toplevel.title) else ""
TitleOf(x) == IF x.toplevel THEN x.title ELSE ""
AppIdOf(x) == IF x.toplevel THEN x.app_id ELSE ""

\* new_xdg_surface with surface.wid assigned without incrementing the counter
new_xdg_surface_no_increment(st, n) ==
    LET x == st.xdg[n]
    IN  IF x.role # "None" /\ x.role # "Toplevel"
        THEN st
        ELSE LET w == st.wid + 1
                 rec == [state |-> "live", wlr_xdg_surface |-> n,
                         scene_tree |-> TRUE,
                         links |-> SurfaceSignals \cup
                                   (IF x.toplevel THEN ToplevelSignals ELSE {}),
                         width |-> 0, height |-> 0, wid |-> w]
                 st1 == [st EXCEPT !.surface[n] = rec]
             IN  emit(st1, "new-surface", w,
                      <<n, TitleOf(x), AppIdOf(x), x.geometry>>)

\* new_xdg_surface with the counter incremented before the role check
new_xdg_surface_popup_takes_wid(st, n) ==
    LET x == st.xdg[n]
        w == st.wid + 1
    IN  IF x.role # "None" /\ x.role # "Toplevel"
        THEN [st EXCEPT !.wid = w]
        ELSE LET rec == [state |-> "live", wlr_xdg_surface |-> n,
                         scene_tree |-> TRUE,
                         links |-> SurfaceSignals \cup
                                   (IF x.toplevel THEN ToplevelSignals ELSE {}),
                         width |-> 0, height |-> 0, wid |-> w]
                 st1 == [st EXCEPT !.wid = w, !.surface[n] = rec]
             IN  emit(st1, "new-surface", st1.wid,
                      <<n, TitleOf(x), AppIdOf(x), x.geometry>>)

\* new_xdg_surface with the new-surface emit inside the `if toplevel:` block
new_xdg_surface_emit_if_toplevel(st, n) ==
    LET x == st.xdg[n]
    IN  IF x.role # "None" /\ x.role # "Toplevel"
        THEN st
        ELSE LET w == st.wid + 1
                 rec == [state |-> "live", wlr_xdg_surface |-> n,
                         scene_tree |-> TRUE,
                         links |-> SurfaceSignals \cup
                                   (IF x.toplevel THEN ToplevelSignals ELSE {}),
                         width |-> 0, height |-> 0, wid |-> w]
                 st1 == [st EXCEPT !.wid = w, !.surface[n] = rec]
             IN  IF x.toplevel
                 THEN emit(st1, "new-surface", st1.wid,
                           <<n, TitleOf(x), AppIdOf(x), x.geometry>>)
                 ELSE st1

\* new_xdg_surface without the early return for the Popup role
new_xdg_surface_any_role(st, n) ==
    LET x == st.xdg[n]
        w == st.wid + 1
        rec == [state |-> "live", wlr_xdg_surface |-> n,
                scene_tree |-> TRUE,
                links |-> SurfaceSignals \cup
                          (IF x.toplevel THEN ToplevelSignals ELSE {}),
                width |-> 0, height |-> 0, wid |-> w]
        st1 == [st EXCEPT !.wid = w, !.surface[n] = rec]
    IN  emit(st1, "new-surface", st1.wid,
             <<n, TitleOf(x), AppIdOf(x), x.geometry>>)

new_xdg_surface(st, n) ==
    LET x == st.xdg[n]
    IN  IF x.role # "None" /\ x.role # "Toplevel"
        THEN st
        ELSE LET w == st.wid + 1
                 rec == [state |-> "live", wlr_xdg_surface |-> n,
                         scene_tree |-> TRUE,
                         links |-> SurfaceSignals \cup
                                   (IF x.toplevel THEN ToplevelSignals ELSE {}),
                         width |-> 0, height |-> 0, wid |-> w]
                 st1 == [st EXCEPT !.wid = w, !.surface[n] = rec]
             IN  emit(st1, "new-surface", st1.wid,
                      <<n, TitleOf(x), AppIdOf(x), x.geometry>>)

\* xdg_surface_map with the emit under `if debug:`
xdg_surface_map_debug_only(st, n) ==
    LET x == st.xdg[n]
    IN  IF debug
        THEN emit(st, "map", st.surface[n].wid,
                  <<TitleOf(x), AppIdOf(x), x.geometry>>)
        ELSE st

xdg_surface_map(st, n) ==
    LET x == st.xdg[n]
    IN  emit(st, "map", st.surface[n].wid, <<TitleOf(x), AppIdOf(x), x.geometry>>)

xdg_surface_unmap(st, n) ==
    emit(st, "unmap", st.surface[n].wid, <<>>)

\* the destroy handler with every wl_list_remove unconditional
destroy_unlinks_all(rec) == SurfaceSignals \cup ToplevelSignals

\* the listeners the destroy handler calls wl_list_remove on: the four
\* surface ones, and each toplevel one whose link.next is not NULL
destroy_unlinks(rec) == SurfaceSignals \cup (rec.links \cap ToplevelSignals)

xdg_surface_destroy_handler(st, n) ==
    LET rec == st.surface[n]
        unlinked == destroy_unlinks(rec)
        st1 == [st EXCEPT !.surface[n] =
                   [rec EXCEPT !.state = "freed", !.links = @ \ unlinked]]
    IN  IF debug
        THEN emit(st1, "destroy", rec.wid, <<>>)
        ELSE st1

\* get_damage_areas with w and h one short
get_damage_areas_short(damage) ==
    [i \in 1..Len(damage) |->
        <<damage[i].x1, damage[i].y1,
          damage[i].x2 - damage[i].x1 - 1, damage[i].y2 - damage[i].y1 - 1>>]

\* pixman boxes (x1, y1, x2, y2) to rectangles (x, y, w, h)
get_damage_areas(damage) ==
    [i \in 1..Len(damage) |->
        <<damage[i].x1, damage[i].y1,
          damage[i].x2 - damage[i].x1, damage[i].y2 - damage[i].y1>>]

\* an unsigned integer as its base-256 digits, lowest first: the len lowest
\* digits of n
Digits(n, len) == [i \in 1..len |-> (n \div 256^(i - 1)) % 256]

\* digit k of the sum of the products a[i] * b[j] with i + j = k + 1, from i on
RECURSIVE ColumnSum(_, _, _, _)
ColumnSum(a, b, k, i) ==
    IF i > k
    THEN 0
    ELSE (IF i <= Len(a) /\ k + 1 - i <= Len(b) THEN a[i] * b[k + 1 - i] ELSE 0)
         + ColumnSum(a, b, k, i + 1)

RECURSIVE MulFrom(_, _, _, _, _)
MulFrom(a, b, k, carry, len) ==
    IF k > len
    THEN <<>>
    ELSE LET t == ColumnSum(a, b, k, 1) + carry
         IN  <<t % 256>> \o MulFrom(a, b, k + 1, t \div 256, len)

\* a * b in an unsigned type of len bytes: the product modulo 256^len
MulDigits(a, b, len) == MulFrom(a, b, 1, 0, len)

\* uint32_t * uint32_t assigned to a uint32_t
MulU32(a, b) == MulDigits(a, b, 4)

\* capture_surface_pixels without the return for a NULL texture
capture_surface_pixels_reads_no_texture(st, n, buf) ==
    IF ~buf.present
    THEN st
    ELSE LET width == buf.width
             height == buf.height
             stride == MulU32(Digits(width, 4), Digits(BytesPerPixel, 4))
             texture_size == MulU32(stride, Digits(height, 4))
             image == [x |-> 0, y |-> 0, width |-> width, height |-> height,
                       pixels |-> texture_size, format |-> "BGRA",
                       depth |-> PixelDepth, stride |-> stride]
         IN  IF buf.has_texture /\ ~buf.readable
             THEN st
             ELSE emit(st, "surface-image", st.surface[n].wid, <<image>>)

\* capture_surface_pixels without the return after a failed read
capture_surface_pixels_ignores_failure(st, n, buf) ==
    IF ~buf.present
    THEN st
    ELSE IF ~buf.has_texture
    THEN st
    ELSE LET width == buf.width
             height == buf.height
             stride == MulU32(Digits(width, 4), Digits(BytesPerPixel, 4))
             texture_size == MulU32(stride, Digits(height, 4))
             image == [x |-> 0, y |-> 0, width |-> width, height |-> height,
                       pixels |-> texture_size, format |-> "BGRA",
                       depth |-> PixelDepth, stride |-> stride]
         IN  emit(st, "surface-image", st.surface[n].wid, <<image>>)

\* buf: the wlr_surface's client buffer at this commit. width and height are
\* numbers below 2^31; stride and the length of the pixel buffer are uint32_t
\* values, kept as their four digits
capture_surface_pixels(st, n, buf) ==
    IF ~buf.present
    THEN st
    ELSE IF ~buf.has_texture
    THEN st
    ELSE LET width == buf.width
             height == buf.height
             stride == MulU32(Digits(width, 4), Digits(BytesPerPixel, 4))
             texture_size == MulU32(stride, Digits(height, 4))
             image == [x |-> 0, y |-> 0, width |-> width, height |-> height,
                       pixels |-> texture_size, format |-> "BGRA",
                       depth |-> PixelDepth, stride |-> stride]
         IN  IF ~buf.readable
             THEN st
             ELSE emit(st, "surface-image", st.surface[n].wid, <<image>>)

\* xdg_surface_commit reading the pixels back whether mapped or not
xdg_surface_commit_always_captures(st, n, damage, buf) ==
    LET x == st.xdg[n]
        st1 == IF x.toplevel /\ x.initialized /\ ~x.configured
               THEN [st EXCEPT !.xdg[n].size = <<DefaultWidth, DefaultHeight>>,
                               !.xdg[n].configure_calls = @ + 1]
               ELSE st
        rects == IF x.mapped THEN get_damage_areas(damage) ELSE <<>>
        st2 == capture_surface_pixels(st1, n, buf)
    IN  emit(st2, "commit", st.surface[n].wid, <<x.mapped, rects>>)

\* xdg_surface_commit emitting commit before the readback
xdg_surface_commit_emits_first(st, n, damage, buf) ==
    LET x == st.xdg[n]
        st1 == IF x.toplevel /\ x.initialized /\ ~x.configured
               THEN [st EXCEPT !.xdg[n].size = <<DefaultWidth, DefaultHeight>>,
                               !.xdg[n].configure_calls = @ + 1]
               ELSE st
        rects == IF x.mapped THEN get_damage_areas(damage) ELSE <<>>
        st2 == emit(st1, "commit", st.surface[n].wid, <<x.mapped, rects>>)
    IN  IF x.mapped THEN capture_surface_pixels(st2, n, buf) ELSE st2

xdg_surface_commit(st, n, damage, buf) ==
    LET x == st.xdg[n]
        st1 == IF x.toplevel /\ x.initialized /\ ~x.configured
               THEN [st EXCEPT !.xdg[n].size = <<DefaultWidth, DefaultHeight>>,
                               !.xdg[n].configure_calls = @ + 1]
               ELSE st
        rects == IF x.mapped THEN get_damage_areas(damage) ELSE <<>>
        st2 == IF x.mapped THEN capture_surface_pixels(st1, n, buf) ELSE st1
    IN  emit(st2, "commit", st.surface[n].wid, <<x.mapped, rects>>)

xdg_toplevel_request_move(st, n, serial) ==
    emit(st, "move", st.surface[n].wid, <<serial>>)

xdg_toplevel_request_resize(st, n, serial) ==
    emit(st, "resize", st.surface[n].wid, <<serial>>)

xdg_toplevel_request_maximize(st, n) ==
    emit(st, "maximize", st.surface[n].wid, <<>>)

xdg_toplevel_request_fullscreen(st, n) ==
    emit(st, "fullscreen", st.surface[n].wid, <<>>)

xdg_toplevel_request_minimize(st, n) ==
    emit(st, "minimize", st.surface[n].wid, <<>>)

\* the set_title handler emitting the new title on the bus
xdg_toplevel_set_title_handler_emits(st, n) ==
    emit(st, "title", st.surface[n].wid, <<st.xdg[n].title>>)

\* the handlers of set_title and set_app_id only log
xdg_toplevel_set_title_handler(st, n) == st

xdg_toplevel_set_app_id_handler(st, n) == st

\* new_toplevel_decoration with the mode the client requested granted
new_toplevel_decoration_grants_request(st, n) ==
    LET decoration == st.xdg[n].decoration
        ssd == decoration.requested_mode = "SERVER_SIDE"
        st1 == [st EXCEPT !.xdg[n].decoration.mode = decoration.requested_mode]
    IN  emit(st1, "ssd", 0, <<n, ssd>>)

\* the decoration of the toplevel of handle n was created. The event has no
\* wid: its arguments are the toplevel pointer (the handle) and the flag
new_toplevel_decoration(st, n) ==
    LET decoration == st.xdg[n].decoration
        ssd == decoration.requested_mode = "SERVER_SIDE"
        st1 == [st EXCEPT !.xdg[n].decoration.mode = "SERVER_SIDE"]
    IN  emit(st1, "ssd", 0, <<n, ssd>>)

\* wl_signal_emit: the handler runs iff the record's listener is in the list
Linked(st, n, signal) == signal \in st.surface[n].links

\* ---------------------------------------------------------------- outputs
Outputs == 1..MaxOutputs

\* struct output and the library's wlr_output behind it: `state` is the
\* wlr_output's, `record` the calloc'ed struct's, `links` its listeners that
\* are in a signal list
NoOutput ==
    [state |-> "absent", record |-> "none", links |-> {},
     scene_output |-> FALSE]

\* new_output for the output of handle o
new_output(outs, o) ==
    [outs EXCEPT ![o].record = "live",
                 ![o].links = {"frame", "destroy"},
                 ![o].scene_output = TRUE]

\* output_frame with the next frame left unscheduled
output_frame_commit_only(rs, o) ==
    Append(rs, [call |-> "wlr_scene_output_commit", output |-> o])

\* output_frame for the record of output o: the calls it adds to the log
output_frame(rs, o) ==
    rs \o <<[call |-> "wlr_scene_output_commit", output |-> o],
            [call |-> "wlr_output_schedule_frame", output |-> o]>>

\* output_destroy_handler with the frame listener left in its list
output_destroy_handler_keeps_frame(outs, o) ==
    [outs EXCEPT ![o].links = @ \ {"destroy"},
                 ![o].record = "freed"]

\* output_destroy_handler for the record of output o
output_destroy_handler(outs, o) ==
    [outs EXCEPT ![o].links = @ \ {"frame", "destroy"},
                 ![o].record = "freed"]

\* the library destroys an output: the destroy signal is raised, then the
\* wlr_output is gone
wlr_output_destroy(outs, o) ==
    LET outs1 == IF "destroy" \in outs[o].links
                 THEN output_destroy_handler(outs, o)
                 ELSE outs
    IN  [outs1 EXCEPT ![o].state = "destroyed"]

\* wlr_backend_destroy: every output of the backend is destroyed
RECURSIVE wlr_backend_destroy(_, _)
wlr_backend_destroy(outs, o) ==
    IF o > MaxOutputs
    THEN outs
    ELSE wlr_backend_destroy(
            IF outs[o].state = "alive" THEN wlr_output_destroy(outs, o) ELSE outs,
            o + 1)

\* ------------------------------------------------------- embedder calls
\* WaylandCompositor.resize(surf, width, height), toplevel non-NULL
resize(st, n, width, height) ==
    [st EXCEPT !.xdg[n].size = <<width, height>>]

\* WaylandCompositor.focus(surf, focused), toplevel non-NULL
focus(st, n, focused) ==
    [st EXCEPT !.xdg[n].activated = focused]

\* WaylandKeyboard.focus(xdg_surface_ptr): the seat's keyboard focus after
\* the call; has_surface: xdg_surface.surface is not NULL
keyboard_focus(sf, xdg_surface_ptr, has_surface) ==
    IF xdg_surface_ptr = 0
    THEN 0
    ELSE IF ~has_surface
    THEN sf
    ELSE xdg_surface_ptr

\* the layouts the embedder asks for
Layouts == {"us", "fr"}

\* WaylandKeyboard after __init__: self.keyboard is NULL (the call of
\* wlr_keyboard_create is commented out and nothing else assigns it); keymap:
\* the keymap of the wlr_keyboard ("": none); contexts, keymaps: the XKB
\* objects created by set_layout that hold a reference; results: what each
\* set_layout call did
NewKeyboard ==
    [keyboard |-> FALSE, keymap |-> "", contexts |-> 0, keymaps |-> 0,
     results |-> <<>>]

\* WaylandKeyboard.set_layout(layout, ...). context_ok, keymap_ok: what
\* xkb_context_new and xkb_keymap_new_from_names return; survives: the
\* process goes on after wlr_keyboard_set_keymap was given a NULL keyboard
\* (undefined behaviour). error: the message of the RuntimeError raised
\* (<<>>: none); created: the XKB objects the call created; released: its
\* unref calls, in order
set_layout(kb, layout, context_ok, keymap_ok, survives) ==
    LET result(error, made, released, died) ==
            [layout |-> layout, error |-> error, created |-> made,
             released |-> released, crashed |-> died,
             keymap_before |-> kb.keymap]
    IN  IF ~context_ok
        THEN [kb EXCEPT !.results = Append(@,
                result(<<"failed to create new xkb context">>, {}, <<>>, FALSE))]
        ELSE IF ~keymap_ok
        THEN [kb EXCEPT !.contexts = @ + 1,
                        !.results = Append(@,
                result(<<"failed to set keymap layout", layout>>,
                       {"context"}, <<>>, FALSE))]
        ELSE IF ~kb.keyboard /\ ~survives
        THEN [kb EXCEPT !.contexts = @ + 1, !.keymaps = @ + 1,
                        !.results = Append(@,
                result(<<>>, {"context", "keymap"}, <<>>, TRUE))]
        ELSE [kb EXCEPT !.keymap = IF kb.keyboard THEN layout ELSE @,
                        !.results = Append(@,
                result(<<>>, {"context", "keymap"},
                       <<"keymap", "context">>, FALSE))]

\* --------------------------------------------------- compositor lifecycle
\* the steps of initialize() that create or link something, in code order
InitOrder ==
    <<"display", "backend", "renderer", "allocator", "compositor",
      "xdg_shell", "scene", "output_layout", "decoration_manager", "cursor",
      "seat", "new_output", "socket", "start">>

\* the steps whose failure initialize() checks and raises on
InitFailures ==
    {"display", "backend", "renderer", "allocator", "output_layout",
     "cursor", "socket", "start"}

\* the creation steps whose result initialize() does not check
InitNulls == {"compositor", "xdg_shell", "scene", "seat"}

\* the unchecked results that the very next statement dereferences:
\* wl_signal_add(&xdg_shell.events.new_surface, ...) and
\* wlr_seat_set_capabilities(seat, 7)
InitCrashes == {"xdg_shell", "seat"}

StepIndex(step) == CHOOSE i \in 1..Len(InitOrder) : InitOrder[i] = step

\* initialize() returns the socket name when the library fails at `fail`
Succeeds(fail) == fail \notin InitFailures \cup InitCrashes

\* the step is run, when the library fails at step `fail` ("none": nowhere)
Reached(step, fail) ==
    Succeeds(fail) \/ StepIndex(step) <= StepIndex(fail)

\* the step was run and the library did not fail in it
Done(step, fail) ==
    Reached(step, fail) /\ step # fail

\* the names wl_display_add_socket_auto can return
SocketNames == {"wayland-0", "wayland-1"}

\* memset(&self.srv, 0, sizeof(server)); self.socket_name = ""; environ: the
\* process's WAYLAND_DISPLAY ("": not set by this program)
NullServer ==
    [display |-> FALSE, backend |-> FALSE, renderer |-> FALSE,
     allocator |-> FALSE, compositor |-> FALSE, xdg_shell |-> FALSE,
     scene |-> FALSE, output_layout |-> FALSE, decoration_manager |-> FALSE,
     cursor |-> FALSE, seat |-> FALSE,
     new_xdg_surface |-> FALSE, new_output |-> FALSE,
     new_toplevel_decoration |-> FALSE,
     socket_name |-> "", environ |-> "", event_loop |-> FALSE]

\* initialize() with new_toplevel_decoration linked whether or not the
\* decoration manager was created
initialize_links_decoration(s, fail, deco, bname) ==
    [s EXCEPT
        !.display = Done("display", fail),
        !.event_loop = @ \/ Done("display", fail),
        !.backend = Done("backend", fail),
        !.renderer = Done("renderer", fail),
        !.allocator = Done("allocator", fail),
        !.compositor = Done("compositor", fail),
        !.xdg_shell = Done("xdg_shell", fail),
        !.new_xdg_surface = @ \/ Done("xdg_shell", fail),
        !.scene = Done("scene", fail),
        !.output_layout = Done("output_layout", fail),
        !.decoration_manager = Reached("decoration_manager", fail) /\ deco,
        !.new_toplevel_decoration = @ \/ Reached("decoration_manager", fail),
        !.cursor = Done("cursor", fail),
        !.seat = Done("seat", fail),
        !.new_output = @ \/ Done("new_output", fail),
        !.socket_name = IF Done("socket", fail) THEN bname ELSE @,
        !.environ = IF Succeeds(fail) THEN bname ELSE @]

\* initialize() with os.environ["WAYLAND_DISPLAY"] set right after the socket
\* was added, before wlr_backend_start
initialize_publishes_with_socket(s, fail, deco, bname) ==
    [s EXCEPT
        !.display = Done("display", fail),
        !.event_loop = @ \/ Done("display", fail),
        !.backend = IF Reached("backend", fail) THEN Done("backend", fail) ELSE @,
        !.renderer = IF Reached("renderer", fail) THEN Done("renderer", fail) ELSE @,
        !.allocator = IF Reached("allocator", fail)
                      THEN Done("allocator", fail) ELSE @,
        !.compositor = IF Reached("compositor", fail)
                       THEN Done("compositor", fail) ELSE @,
        !.xdg_shell = IF Reached("xdg_shell", fail)
                      THEN Done("xdg_shell", fail) ELSE @,
        !.new_xdg_surface = @ \/ Done("xdg_shell", fail),
        !.scene = IF Reached("scene", fail) THEN Done("scene", fail) ELSE @,
        !.output_layout = IF Reached("output_layout", fail)
                          THEN Done("output_layout", fail) ELSE @,
        !.decoration_manager = IF Reached("decoration_manager", fail)
                               THEN deco ELSE @,
        !.new_toplevel_decoration =
            @ \/ (Reached("decoration_manager", fail) /\ deco),
        !.cursor = IF Reached("cursor", fail) THEN Done("cursor", fail) ELSE @,
        !.seat = IF Reached("seat", fail) THEN Done("seat", fail) ELSE @,
        !.new_output = @ \/ Done("new_output", fail),
        !.socket_name = IF Done("socket", fail) THEN bname ELSE @,
        !.environ = IF Done("socket", fail) THEN bname ELSE @]

\* srv after initialize() when the library fails at step `fail` ("none":
\* nowhere); `deco`: the library can create a decoration manager. A field
\* whose step is not reached keeps the value it had
initialize(s, fail, deco, bname) ==
    [s EXCEPT
        !.display = Done("display", fail),
        !.event_loop = @ \/ Done("display", fail),
        !.backend = IF Reached("backend", fail) THEN Done("backend", fail) ELSE @,
        !.renderer = IF Reached("renderer", fail) THEN Done("renderer", fail) ELSE @,
        !.allocator = IF Reached("allocator", fail)
                      THEN Done("allocator", fail) ELSE @,
        !.compositor = IF Reached("compositor", fail)
                       THEN Done("compositor", fail) ELSE @,
        !.xdg_shell = IF Reached("xdg_shell", fail)
                      THEN Done("xdg_shell", fail) ELSE @,
        !.new_xdg_surface = @ \/ Done("xdg_shell", fail),
        !.scene = IF Reached("scene", fail) THEN Done("scene", fail) ELSE @,
        !.output_layout = IF Reached("output_layout", fail)
                          THEN Done("output_layout", fail) ELSE @,
        !.decoration_manager = IF Reached("decoration_manager", fail)
                               THEN deco ELSE @,
        !.new_toplevel_decoration =
            @ \/ (Reached("decoration_manager", fail) /\ deco),
        !.cursor = IF Reached("cursor", fail) THEN Done("cursor", fail) ELSE @,
        !.seat = IF Reached("seat", fail) THEN Done("seat", fail) ELSE @,
        !.new_output = @ \/ Done("new_output", fail),
        !.socket_name = IF Done("socket", fail) THEN bname ELSE @,
        !.environ = IF Succeeds(fail) THEN bname ELSE @]

\* the library objects that initialize() creates when the library fails at
\* `fail`
initialize_objects(fail, deco) ==
    {o \in {"display", "backend", "renderer", "allocator", "compositor",
            "xdg_shell", "scene", "output_layout", "cursor", "seat"} :
        Done(o, fail)}
    \cup (IF Reached("decoration_manager", fail) /\ deco
          THEN {"decoration_manager"} ELSE {})

\* what the initialize() call did: the step the library failed in, the step
\* named by the RuntimeError raised ("none": returned or crashed), the steps
\* run after the failing one
initialize_result(fail) ==
    [fail |-> fail,
     raised |-> IF fail \in InitFailures THEN fail ELSE "none",
     crashed |-> fail \in InitCrashes,
     later |-> {InitOrder[i] : i \in {j \in 1..Len(InitOrder) :
                    /\ fail # "none"
                    /\ j > StepIndex(fail)
                    /\ Reached(InitOrder[j], fail)}}]

NoResult == [fail |-> "none", raised |-> "none", crashed |-> FALSE, later |-> {}]

\* the library destroys a surface: a mapped one is unmapped first, then the
\* destroy signal is raised, then the library's object is gone (only the
\* history fields of the model outlive it)
wl_resource_destroy(st, n) ==
    LET st1 == [st EXCEPT !.xdg[n].mapped = FALSE]
        st2 == IF st.xdg[n].mapped /\ Linked(st1, n, "unmap")
               THEN xdg_surface_unmap(st1, n)
               ELSE st1
        st3 == IF Linked(st2, n, "destroy")
               THEN xdg_surface_destroy_handler(st2, n)
               ELSE st2
        x == st3.xdg[n]
    IN  [st3 EXCEPT !.xdg[n] =
            [AbsentXdg EXCEPT !.state = "destroyed",
                              !.created_role = x.created_role,
                              !.ordinal = x.ordinal,
                              !.ever_mapped = x.ever_mapped,
                              !.requested = x.requested,
                              !.commits = x.commits,
                              !.unheard = x.unheard]]

RECURSIVE wl_display_destroy_clients(_, _)
wl_display_destroy_clients(st, n) ==
    IF n > MaxNative
    THEN st
    ELSE wl_display_destroy_clients(
            IF st.xdg[n].state = "alive" THEN wl_resource_destroy(st, n) ELSE st,
            n + 1)

\* cleanup() without its last statement, self.srv.display = NULL
cleanup_keeps_display(s) ==
    [s EXCEPT
        !.new_xdg_surface = FALSE,
        !.new_output = FALSE,
        !.new_toplevel_decoration = FALSE,
        !.scene = FALSE,
        !.cursor = FALSE,
        !.output_layout = FALSE,
        !.seat = FALSE,
        !.allocator = FALSE,
        !.renderer = FALSE,
        !.backend = FALSE]

\* srv after cleanup(), display non-NULL
cleanup(s) ==
    [s EXCEPT
        !.new_xdg_surface = FALSE,
        !.new_output = FALSE,
        !.new_toplevel_decoration = FALSE,
        !.scene = FALSE,
        !.cursor = FALSE,
        !.output_layout = FALSE,
        !.seat = FALSE,
        !.allocator = FALSE,
        !.renderer = FALSE,
        !.backend = FALSE,
        !.display = FALSE]

\* the listeners and objects cleanup() looks at after destroying the clients,
\* in the order of its statements
CleanupOrder ==
    <<"new_xdg_surface", "new_output", "new_toplevel_decoration",
      "scene", "cursor", "output_layout", "seat", "allocator", "renderer",
      "backend">>

CleanupListeners == {"new_xdg_surface", "new_output", "new_toplevel_decoration"}

\* the listeners that are linked and the objects that are non-NULL, from
\* position i of CleanupOrder on
RECURSIVE cleanup_steps(_, _)
cleanup_steps(s, i) ==
    IF i > Len(CleanupOrder)
    THEN <<>>
    ELSE (IF s[CleanupOrder[i]] THEN <<CleanupOrder[i]>> ELSE <<>>)
         \o cleanup_steps(s, i + 1)

\* cleanup() destroying the display first and the clients last
cleanup_calls_display_first(s) ==
    <<"display">> \o cleanup_steps(s, 1) \o <<"clients">>

\* cleanup() without its tests of link.next and of the pointers: every
\* listener is unlinked and every object destroyed
cleanup_calls_unguarded(s) ==
    <<"clients">> \o CleanupOrder \o <<"display">>

\* the calls of cleanup(), display non-NULL: destroy the clients, unlink each
\* linked listener, destroy each non-NULL object, destroy the display
cleanup_calls(s) ==
    <<"clients">> \o cleanup_steps(s, 1) \o <<"display">>

\* the objects that wl_display_destroy destroys with the display
DisplayGlobals == {"compositor", "xdg_shell", "decoration_manager"}

\* the objects that exist after cleanup(), display non-NULL
cleanup_objects(s, objs) ==
    objs \ ({cleanup_calls(s)[i] : i \in 1..Len(cleanup_calls(s))}
             \cup DisplayGlobals)

\* the objects cleanup() destroys that do not exist
cleanup_faults(s, objs) ==
    {o \in {cleanup_calls(s)[i] : i \in 1..Len(cleanup_calls(s))} :
        o \notin CleanupListeners \cup {"clients"} /\ o \notin objs}

\* ------------------------------------------------------------ environment
\* what a commit finds in wlr_surface.buffer_damage
Damages == {<<>>, <<[x1 |-> 0, y1 |-> 0, x2 |-> 4, y2 |-> 2]>>}

\* what a commit finds in wlr_surface.buffer
NoBuffer ==
    [present |-> FALSE, has_texture |-> FALSE, width |-> 0, height |-> 0,
     readable |-> FALSE]
Buffers ==
    {NoBuffer,
     [present |-> TRUE, has_texture |-> FALSE, width |-> 0, height |-> 0,
      readable |-> FALSE],
     [present |-> TRUE, has_texture |-> TRUE, width |-> 4, height |-> 2,
      readable |-> FALSE],
     [present |-> TRUE, has_texture |-> TRUE, width |-> 4, height |-> 2,
      readable |-> TRUE]}

Serials == {1}
Requests == {"request_move", "request_resize", "request_maximize",
             "request_fullscreen", "request_minimize"}

Alive(n) == xdg[n].state = "alive"
Room == signals < MaxSignals

\* the signals the library raises when it destroys the surface of handle n:
\* unmap for a mapped one, then destroy
DestroySignals(n) == IF xdg[n].mapped THEN 2 ELSE 1

NoProbe == [damage |-> <<>>, buf |-> NoBuffer, mark |-> 0, commits |-> 0]

\* the process before the first compositor is initialized
InitProcess ==
    /\ debug \in BOOLEAN
    /\ wid = 0
    /\ srv = NullServer
    /\ running = FALSE
    /\ xdg = [n \in Natives |-> AbsentXdg]
    /\ surface = [n \in Natives |-> NoRecord]
    /\ events = <<>>
    /\ event_listeners = <<>>
    /\ calls = <<>>
    /\ created = 0
    /\ signals = 0
    /\ objects = {}
    /\ teardown = <<>>
    /\ faults = {}
    /\ init_result = NoResult
    /\ crashed = FALSE
    /\ bus_ops = <<>>
    /\ outputs = [o \in Outputs |-> NoOutput]
    /\ renders = <<>>
    /\ seat_focus = 0
    /\ last_focus = 0
    /\ handed = <<>>
    /\ wayland_keyboard = NewKeyboard

Init ==
    /\ InitProcess
    /\ probe = NoProbe

\* WaylandCompositor.initialize() on a compositor without a display, the
\* library failing at one of the steps of `fails`
InitializeWith(fails) ==
    /\ ~crashed
    /\ ~srv.display
    /\ Room
    /\ \E fail \in fails, deco \in BOOLEAN, bname \in SocketNames :
          /\ srv' = initialize(srv, fail, deco, bname)
          /\ objects' = objects \cup initialize_objects(fail, deco)
          /\ init_result' = initialize_result(fail)
          /\ crashed' = (fail \in InitCrashes)
          /\ running' = Succeeds(fail)
          /\ created' = IF Succeeds(fail) THEN 0 ELSE created
    /\ teardown' = <<>>
    /\ UNCHANGED <<signals, debug, wid, xdg, surface, events, event_listeners,
                   calls, faults, probe, bus_ops>>
    /\ UNCHANGED device_vars

\* the steps a library whose unchecked creations succeed can fail at
CheckedFailures == InitFailures \cup {"none"}

\* the steps a library can fail at
AnyFailures == InitFailures \cup InitNulls \cup {"none"}

\* initialize() with a library whose unchecked creations succeed, called by a
\* process that is still alive
Initialize ==
    /\ ~crashed
    /\ InitializeWith(CheckedFailures)

\* initialize() with a library that may fail at any step
InitializeAny ==
    /\ ~crashed
    /\ InitializeWith(AnyFailures)

\* the body of cleanup()
RunCleanup ==
    IF ~srv.display
    THEN /\ teardown' = <<"return">>
         /\ UNCHANGED <<wid, xdg, surface, events, event_listeners, calls,
                        signals, objects, faults>>
         /\ UNCHANGED device_vars
    ELSE /\ Apply(wl_display_destroy_clients(Cur, 1))
         /\ seat_focus' = 0
         /\ outputs' = IF srv.backend
                       THEN wlr_backend_destroy(outputs, 1) ELSE outputs
         /\ UNCHANGED <<renders, last_focus, handed, wayland_keyboard>>
         /\ signals' = signals + Cardinality({n \in Natives : Alive(n)})
                               + Cardinality({n \in Natives : Alive(n) /\ xdg[n].mapped})
         /\ teardown' = cleanup_calls(srv)
         /\ objects' = cleanup_objects(srv, objects)
         /\ faults' = faults \cup cleanup_faults(srv, objects)

\* WaylandCompositor.cleanup()
Cleanup ==
    /\ ~crashed
    /\ RunCleanup
    /\ srv' = IF srv.display THEN cleanup(srv) ELSE srv
    /\ running' = FALSE
    /\ init_result' = NoResult
    /\ UNCHANGED <<debug, created, crashed, probe, bus_ops>>

\* WaylandCompositor.__dealloc__(), then __cinit__ of the next compositor of
\* the process
Dealloc ==
    /\ ~crashed
    /\ RunCleanup
    /\ srv' = NullServer
    /\ running' = FALSE
    /\ init_result' = NoResult
    /\ UNCHANGED <<debug, created, crashed, probe, bus_ops>>

\* a client creates an xdg_surface: the xdg_shell raises new_surface
NewXdgSurface ==
    /\ running
    /\ srv.compositor
    /\ Room
    /\ \E n \in Natives, role \in Roles :
          /\ xdg[n].state = "absent"
          /\ \A m \in Natives : m < n => xdg[m].state # "absent"
          /\ IF srv.new_xdg_surface /\ role # "Popup" /\ ~srv.scene
             THEN \* wlr_scene_xdg_surface_create(&srv.scene.tree, ...), scene NULL
                  /\ crashed' = TRUE
                  /\ running' = FALSE
                  /\ UNCHANGED <<wid, xdg, surface, events, event_listeners,
                                 calls, created>>
             ELSE /\ created' = IF role = "Popup" THEN created ELSE created + 1
                  /\ LET st == [Cur EXCEPT !.xdg[n] =
                                   [AbsentXdg EXCEPT !.state = "alive",
                                                     !.role = role,
                                                     !.toplevel = (role = "Toplevel"),
                                                     !.created_role = role,
                                                     !.ordinal = created']]
                     IN  Apply(IF srv.new_xdg_surface
                               THEN new_xdg_surface(st, n) ELSE st)
                  /\ UNCHANGED <<crashed, running>>
    /\ signals' = signals + 1
    /\ UNCHANGED <<debug, srv, bus_ops, objects, teardown, faults, init_result,
                   probe>>
    /\ UNCHANGED device_vars

\* a client gives a role to an xdg_surface created without one
AssignRole ==
    /\ running
    /\ \E n \in Natives, role \in Roles \ {"None"} :
          /\ Alive(n)
          /\ xdg[n].role = "None"
          /\ xdg' = [xdg EXCEPT ![n].role = role,
                                ![n].toplevel = (role = "Toplevel")]
    /\ UNCHANGED lifecycle_vars
    /\ UNCHANGED <<signals, debug, wid, srv, running, surface, events, event_listeners,
                   calls, created, bus_ops>>
    /\ UNCHANGED device_vars

\* a client commits: a surface with a role becomes initialized, then the
\* commit signal is raised
SurfaceCommit ==
    /\ running
    /\ Room
    /\ \E n \in Natives, damage \in Damages, buf \in Buffers :
          /\ Alive(n)
          /\ LET st == [Cur EXCEPT !.xdg[n].initialized =
                           @ \/ xdg[n].role # "None"]
             IN  Apply(IF Linked(st, n, "commit")
                       THEN xdg_surface_commit(
                               [st EXCEPT !.xdg[n].commits = @ + 1],
                               n, damage, buf)
                       ELSE st)
    /\ signals' = signals + 1
    /\ UNCHANGED lifecycle_vars
    /\ UNCHANGED <<debug, srv, running, created, bus_ops>>
    /\ UNCHANGED device_vars

\* a client acknowledges a configure that was scheduled for it
AckConfigure ==
    /\ running
    /\ \E n \in Natives :
          /\ Alive(n)
          /\ xdg[n].initialized
          /\ ~xdg[n].configured
          /\ xdg[n].configure_calls > 0
          /\ xdg' = [xdg EXCEPT ![n].configured = TRUE]
    /\ UNCHANGED lifecycle_vars
    /\ UNCHANGED <<signals, debug, wid, srv, running, surface, events, event_listeners,
                   calls, created, bus_ops>>
    /\ UNCHANGED device_vars

\* the library maps a configured surface that has a role: mapped is set, then
\* the map signal is raised
SurfaceMap ==
    /\ running
    /\ Room
    /\ \E n \in Natives :
          /\ Alive(n)
          /\ xdg[n].role # "None"
          /\ xdg[n].initialized
          /\ xdg[n].configured \/ xdg[n].role = "Popup"
          /\ ~xdg[n].mapped
          /\ LET st == [Cur EXCEPT !.xdg[n].mapped = TRUE]
             IN  Apply(IF Linked(st, n, "map")
                       THEN xdg_surface_map(
                               [st EXCEPT !.xdg[n].ever_mapped = TRUE], n)
                       ELSE st)
    /\ signals' = signals + 1
    /\ UNCHANGED lifecycle_vars
    /\ UNCHANGED <<debug, srv, running, created, bus_ops>>
    /\ UNCHANGED device_vars

\* the library unmaps a surface: mapped is cleared, then the unmap signal is
\* raised
SurfaceUnmap ==
    /\ running
    /\ Room
    /\ \E n \in Natives :
          /\ Alive(n)
          /\ xdg[n].mapped
          /\ LET st == [Cur EXCEPT !.xdg[n].mapped = FALSE]
             IN  Apply(IF Linked(st, n, "unmap") THEN xdg_surface_unmap(st, n) ELSE st)
    /\ signals' = signals + 1
    /\ UNCHANGED lifecycle_vars
    /\ UNCHANGED <<debug, srv, running, created, bus_ops>>
    /\ UNCHANGED device_vars

\* a client destroys its surface
SurfaceDestroy ==
    /\ running
    /\ Room
    /\ \E n \in Natives :
          /\ Alive(n)
          /\ Apply(wl_resource_destroy(Cur, n))
          /\ signals' = signals + DestroySignals(n)
          /\ seat_focus' = IF seat_focus = n THEN 0 ELSE seat_focus
    /\ UNCHANGED <<outputs, renders, last_focus, handed, wayland_keyboard>>
    /\ UNCHANGED lifecycle_vars
    /\ UNCHANGED <<debug, srv, running, created, bus_ops>>

\* a client's toplevel asks to be moved, resized, maximized, ...
ToplevelRequest ==
    /\ running
    /\ Room
    /\ \E n \in Natives, request \in Requests, serial \in Serials :
          /\ Alive(n)
          /\ xdg[n].toplevel
          /\ LET st == [Cur EXCEPT !.xdg[n].requested =
                                      @ \/ Linked(Cur, n, request),
                                  !.xdg[n].unheard =
                                      @ \/ ~Linked(Cur, n, request)]
             IN  Apply(IF ~Linked(st, n, request) THEN st
                       ELSE CASE request = "request_move" ->
                                    xdg_toplevel_request_move(st, n, serial)
                              [] request = "request_resize" ->
                                    xdg_toplevel_request_resize(st, n, serial)
                              [] request = "request_maximize" ->
                                    xdg_toplevel_request_maximize(st, n)
                              [] request = "request_fullscreen" ->
                                    xdg_toplevel_request_fullscreen(st, n)
                              [] request = "request_minimize" ->
                                    xdg_toplevel_request_minimize(st, n))
    /\ signals' = signals + 1
    /\ UNCHANGED lifecycle_vars
    /\ UNCHANGED <<debug, srv, running, created, bus_ops>>
    /\ UNCHANGED device_vars

Next ==
    \/ Initialize
    \/ Cleanup
    \/ NewXdgSurface
    \/ AssignRole
    \/ SurfaceCommit
    \/ AckConfigure
    \/ SurfaceMap
    \/ SurfaceUnmap
    \/ SurfaceDestroy
    \/ ToplevelRequest

Spec == Init /\ [][Next]_vars

\* ------------------------------------------- the lifecycle on its own
\* initialize() / cleanup() cycles with a library that can fail at any step,
\* and clients that create and destroy surfaces in between
NextLifecycle ==
    \/ InitializeAny
    \/ Cleanup
    \/ Dealloc
    \/ NewXdgSurface
    \/ SurfaceDestroy

SpecLifecycle == Init /\ [][NextLifecycle]_vars

\* --------------------------------------------- decorations on their own
\* a client creates the decoration object of its toplevel: the decoration
\* manager raises new_toplevel_decoration, with the mode the library has
\* recorded as requested
NewToplevelDecoration ==
    /\ running
    /\ srv.decoration_manager
    /\ "decoration_manager" \in objects
    /\ Room
    /\ \E n \in Natives, requested_mode \in DecorationModes :
          /\ Alive(n)
          /\ xdg[n].toplevel
          /\ ~xdg[n].decoration.exists
          /\ LET st == [Cur EXCEPT !.xdg[n].decoration =
                           [exists |-> TRUE, requested_mode |-> requested_mode,
                            mode |-> "NONE"]]
             IN  Apply(IF srv.new_toplevel_decoration
                       THEN new_toplevel_decoration(st, n) ELSE st)
    /\ signals' = signals + 1
    /\ UNCHANGED lifecycle_vars
    /\ UNCHANGED <<debug, srv, running, created, bus_ops>>
    /\ UNCHANGED device_vars

NextDecoration ==
    \/ Initialize
    \/ Cleanup
    \/ NewXdgSurface
    \/ AssignRole
    \/ NewToplevelDecoration
    \/ SurfaceDestroy

SpecDecoration == Init /\ [][NextDecoration]_vars

\* ------------------------------------------------ titles and application ids
\* what a client sets
Titles == {"xterm"}
AppIds == {"org.xterm"}

\* a client's toplevel sets its title or its app_id: the library stores the
\* string, then raises set_title or set_app_id
ToplevelSet ==
    /\ running
    /\ Room
    /\ \E n \in Natives :
          /\ Alive(n)
          /\ xdg[n].toplevel
          /\ \/ \E title \in Titles :
                   /\ xdg[n].title # title
                   /\ LET st == [Cur EXCEPT !.xdg[n].title = title]
                      IN  Apply(IF Linked(st, n, "set_title")
                                THEN xdg_toplevel_set_title_handler(st, n)
                                ELSE st)
             \/ \E app_id \in AppIds :
                   /\ xdg[n].app_id # app_id
                   /\ LET st == [Cur EXCEPT !.xdg[n].app_id = app_id]
                      IN  Apply(IF Linked(st, n, "set_app_id")
                                THEN xdg_toplevel_set_app_id_handler(st, n)
                                ELSE st)
    /\ signals' = signals + 1
    /\ UNCHANGED lifecycle_vars
    /\ UNCHANGED <<debug, srv, running, created, bus_ops>>
    /\ UNCHANGED device_vars

NextTitles ==
    \/ Initialize
    \/ NewXdgSurface
    \/ AssignRole
    \/ SurfaceCommit
    \/ AckConfigure
    \/ SurfaceMap
    \/ SurfaceUnmap
    \/ ToplevelSet
    \/ SurfaceDestroy

SpecTitles == Init /\ [][NextTitles]_vars

\* ------------------------------------- outputs, devices and the embedder
\* the backend announces an output: new_output is raised
NewOutput ==
    /\ running
    /\ srv.backend
    /\ Room
    /\ \E o \in Outputs :
          /\ outputs[o].state = "absent"
          /\ \A p \in Outputs : p < o => outputs[p].state # "absent"
          /\ IF srv.new_output /\ ~srv.scene
             THEN \* wlr_scene_output_create(srv.scene, wlr_out), scene NULL
                  /\ crashed' = TRUE
                  /\ running' = FALSE
                  /\ UNCHANGED outputs
             ELSE /\ LET outs == [outputs EXCEPT ![o].state = "alive"]
                     IN  outputs' = IF srv.new_output
                                    THEN new_output(outs, o) ELSE outs
                  /\ UNCHANGED <<crashed, running>>
    /\ signals' = signals + 1
    /\ UNCHANGED <<debug, wid, srv, xdg, surface, events, event_listeners,
                   calls, created, objects, teardown, faults, init_result,
                   probe, bus_ops, renders, seat_focus, last_focus,
                   handed, wayland_keyboard>>

\* an output is ready for a frame: its frame signal is raised
OutputFrame ==
    /\ running
    /\ Room
    /\ \E o \in Outputs :
          /\ outputs[o].state = "alive"
          /\ renders' = IF "frame" \in outputs[o].links
                        THEN output_frame(renders, o) ELSE renders
    /\ signals' = signals + 1
    /\ UNCHANGED lifecycle_vars
    /\ UNCHANGED <<debug, wid, srv, running, xdg, surface, events,
                   event_listeners, calls, created, bus_ops, outputs,
                   seat_focus, last_focus, handed, wayland_keyboard>>

\* the backend destroys an output
OutputDestroy ==
    /\ running
    /\ Room
    /\ \E o \in Outputs :
          /\ outputs[o].state = "alive"
          /\ outputs' = wlr_output_destroy(outputs, o)
    /\ signals' = signals + 1
    /\ UNCHANGED lifecycle_vars
    /\ UNCHANGED <<debug, wid, srv, running, xdg, surface, events,
                   event_listeners, calls, created, bus_ops, renders,
                   seat_focus, last_focus, handed, wayland_keyboard>>

\* the sizes the embedder asks for
ResizeSizes == {<<640, 480>>}

\* the embedder calls resize(surf, width, height) or focus(surf, focused)
\* with the pointer of a surface that exists
EmbedderCall ==
    /\ running
    /\ \E n \in Natives :
          /\ Alive(n)
          /\ IF ~xdg[n].toplevel
             THEN \* wlr_xdg_toplevel_set_size / set_activated(NULL, ...)
                  /\ crashed' = TRUE
                  /\ running' = FALSE
                  /\ UNCHANGED xdg
             ELSE /\ \/ \E size \in ResizeSizes :
                           xdg' = resize(Cur, n, size[1], size[2]).xdg
                        \/ \E focused \in BOOLEAN :
                           xdg' = focus(Cur, n, focused).xdg
                  /\ UNCHANGED <<crashed, running>>
    /\ UNCHANGED <<debug, wid, srv, surface, events, event_listeners, calls,
                   created, signals, objects, teardown, faults, init_result,
                   probe, bus_ops>>
    /\ UNCHANGED device_vars

\* the embedder calls WaylandKeyboard.focus with 0 or the pointer of a
\* surface that exists
KeyboardFocus ==
    /\ running
    /\ srv.seat
    /\ \E xdg_surface_ptr \in {0} \cup {n \in Natives : Alive(n)},
          has_surface \in BOOLEAN :
          /\ seat_focus' = keyboard_focus(seat_focus, xdg_surface_ptr,
                                          has_surface)
          /\ last_focus' = xdg_surface_ptr
    /\ UNCHANGED lifecycle_vars
    /\ UNCHANGED <<debug, wid, srv, running, xdg, surface, events,
                   event_listeners, calls, created, signals, bus_ops, outputs,
                   renders, handed, wayland_keyboard>>

NextDevices ==
    \/ Initialize
    \/ Cleanup
    \/ NewXdgSurface
    \/ SurfaceCommit
    \/ SurfaceDestroy
    \/ NewOutput
    \/ OutputFrame
    \/ OutputDestroy
    \/ EmbedderCall
    \/ KeyboardFocus

SpecDevices == Init /\ [][NextDevices]_vars

\* ------------------------------------------------ one commit on its own
\* the damage regions a commit is tried with: pixman keeps non-empty boxes
\* (x1 < x2, y1 < y2) in band order
ProbeDamages ==
    {<<>>,
     <<[x1 |-> 0, y1 |-> 0, x2 |-> 4, y2 |-> 2]>>,
     <<[x1 |-> 1, y1 |-> 0, x2 |-> 2, y2 |-> 1]>>,
     <<[x1 |-> 2, y1 |-> 0, x2 |-> 4, y2 |-> 1],
       [x1 |-> 0, y1 |-> 1, x2 |-> 3, y2 |-> 2]>>}

\* the texture sizes a commit is tried with
ProbeWidths == {4, 32768, 1073741824}
ProbeHeights == {2, 32768}

\* the client buffers a commit is tried with
ProbeBuffers ==
    {NoBuffer,
     [present |-> TRUE, has_texture |-> FALSE, width |-> 0, height |-> 0,
      readable |-> FALSE]}
    \cup [present : {TRUE}, has_texture : {TRUE}, width : ProbeWidths,
          height : ProbeHeights, readable : BOOLEAN]

\* a buffer whose texture can be read
GoodBuffer ==
    [present |-> TRUE, has_texture |-> TRUE, width |-> 4, height |-> 2,
     readable |-> TRUE]

\* the program after initialize(), a toplevel created by a client, its first
\* commit, the acknowledged configure and, when `mapped`, its map
ProbeState(mapped) ==
    LET st0 == [wid |-> 0,
                surface |-> [n \in Natives |-> NoRecord],
                xdg |-> [n \in Natives |->
                           IF n = 1
                           THEN [AbsentXdg EXCEPT !.state = "alive",
                                                  !.role = "Toplevel",
                                                  !.toplevel = TRUE,
                                                  !.created_role = "Toplevel",
                                                  !.ordinal = 1]
                           ELSE AbsentXdg],
                events |-> <<>>, event_listeners |-> <<>>, calls |-> <<>>]
        st1 == new_xdg_surface(st0, 1)
        st2 == xdg_surface_commit(
                   [st1 EXCEPT !.xdg[1].initialized = TRUE,
                               !.xdg[1].commits = 1], 1, <<>>, NoBuffer)
        st3 == [st2 EXCEPT !.xdg[1].configured = TRUE]
    IN  IF mapped
        THEN xdg_surface_map([st3 EXCEPT !.xdg[1].mapped = TRUE,
                                         !.xdg[1].ever_mapped = TRUE], 1)
        ELSE st3

InitCommit ==
    /\ debug \in BOOLEAN
    /\ \E mapped \in BOOLEAN :
          /\ wid = ProbeState(mapped).wid
          /\ xdg = ProbeState(mapped).xdg
          /\ surface = ProbeState(mapped).surface
          /\ events = ProbeState(mapped).events
          /\ signals = IF mapped THEN 3 ELSE 2
    /\ srv = initialize(NullServer, "none", TRUE, "wayland-0")
    /\ objects = initialize_objects("none", TRUE)
    /\ init_result = NoResult
    /\ running = TRUE
    /\ created = 1
    /\ event_listeners = <<>>
    /\ calls = <<>>
    /\ teardown = <<>>
    /\ faults = {}
    /\ crashed = FALSE
    /\ bus_ops = <<>>
    /\ outputs = [o \in Outputs |-> NoOutput]
    /\ renders = <<>>
    /\ seat_focus = 0
    /\ last_focus = 0
    /\ handed = <<>>
    /\ wayland_keyboard = NewKeyboard
    /\ probe \in [damage : ProbeDamages, buf : ProbeBuffers,
                   mark : {Len(events)}, commits : {0}]

\* the client commits with the damage and the buffer under test
CommitProbe ==
    /\ probe.commits = 0
    /\ Apply(xdg_surface_commit([Cur EXCEPT !.xdg[1].commits = @ + 1], 1,
                                probe.damage, probe.buf))
    /\ probe' = [probe EXCEPT !.commits = 1]
    /\ signals' = signals + 1
    /\ UNCHANGED <<debug, srv, running, created, objects, teardown, faults,
                   init_result, crashed, bus_ops>>
    /\ UNCHANGED device_vars

\* the client commits again, with a buffer whose texture can be read
CommitAgain ==
    /\ probe.commits = 1
    /\ Apply(IF Linked(Cur, 1, "commit")
             THEN xdg_surface_commit([Cur EXCEPT !.xdg[1].commits = @ + 1], 1,
                                     <<>>, GoodBuffer)
             ELSE Cur)
    /\ probe' = [probe EXCEPT !.commits = 2]
    /\ signals' = signals + 1
    /\ UNCHANGED <<debug, srv, running, created, objects, teardown, faults,
                   init_result, crashed, bus_ops>>
    /\ UNCHANGED device_vars

NextCommit ==
    \/ CommitProbe
    \/ CommitAgain

SpecCommit == InitCommit /\ [][NextCommit]_vars

\* -------------------------------------------------- the bus on its own
\* add_event_listener(event_name, callback), called by the embedder
AddEventListener ==
    /\ Len(bus_ops) < MaxBusOps
    /\ \E event_name \in EventNames, callback \in Callbacks :
          /\ event_listeners' = add_event_listener(event_listeners, event_name, callback)
          /\ bus_ops' = Append(bus_ops, [op |-> "add", name |-> event_name,
                                         callback |-> callback,
                                         before |-> event_listeners,
                                         called |-> <<>>, raised |-> FALSE])
    /\ UNCHANGED lifecycle_vars
    /\ UNCHANGED <<signals, debug, wid, srv, running, xdg, surface, events, calls, created>>
    /\ UNCHANGED device_vars

\* remove_event_listener(event_name, callback), called by the embedder
RemoveEventListener ==
    /\ Len(bus_ops) < MaxBusOps
    /\ \E event_name \in EventNames, callback \in Callbacks :
          /\ event_listeners' = remove_event_listener(event_listeners, event_name, callback)
          /\ bus_ops' = Append(bus_ops, [op |-> "remove", name |-> event_name,
                                         callback |-> callback,
                                         before |-> event_listeners,
                                         called |-> <<>>, raised |-> FALSE])
    /\ UNCHANGED lifecycle_vars
    /\ UNCHANGED <<signals, debug, wid, srv, running, xdg, surface, events, calls, created>>
    /\ UNCHANGED device_vars

\* emit(event_name), called by a handler of the compositor
Emit ==
    /\ Len(bus_ops) < MaxBusOps
    /\ \E event_name \in EventNames :
          LET st == emit(Cur, event_name, 0, <<>>)
          IN  /\ Apply(st)
              /\ bus_ops' = Append(bus_ops,
                    [op |-> "emit", name |-> event_name, callback |-> "",
                     before |-> event_listeners,
                     called |-> [i \in 1..(Len(st.calls) - Len(calls)) |->
                                    st.calls[Len(calls) + i].callback],
                     raised |-> emit_callbacks(event_listeners, event_name,
                                               1, <<>>).raised])
    /\ UNCHANGED lifecycle_vars
    /\ UNCHANGED <<signals, debug, srv, running, created>>
    /\ UNCHANGED device_vars

NextBus ==
    \/ AddEventListener
    \/ RemoveEventListener
    \/ Emit

SpecBus == Init /\ [][NextBus]_vars

\* the bus after the k-th recorded operation
BusAfter(k) ==
    IF k < Len(bus_ops) THEN bus_ops[k + 1].before ELSE event_listeners

\* operations k and k + 1 are add(n, cb) then remove(n, cb)
AddThenRemove(k) ==
    /\ k \in 1..(Len(bus_ops) - 1)
    /\ bus_ops[k].op = "add"
    /\ bus_ops[k + 1].op = "remove"
    /\ bus_ops[k + 1].name = bus_ops[k].name
    /\ bus_ops[k + 1].callback = bus_ops[k].callback

\* operation k is the same call as operation k - 1
SameCallAgain(k) ==
    /\ k \in 2..Len(bus_ops)
    /\ bus_ops[k].op = bus_ops[k - 1].op
    /\ bus_ops[k].name = bus_ops[k - 1].name
    /\ bus_ops[k].callback = bus_ops[k - 1].callback

\* cb is registered for n in the bus before operation k
RegisteredBefore(k) ==
    FirstIndex(Listeners(bus_ops[k].before, bus_ops[k].name), bus_ops[k].callback) # 0

\* C10 (as claimed): from every bus state S, add_event_listener(n, cb) then
\* remove_event_listener(n, cb) yields exactly S, and one more
\* remove_event_listener(n, cb) leaves the bus unchanged.
C10_AddRemoveRestoresAnyBus ==
    \A k \in 1..Len(bus_ops) :
        AddThenRemove(k) =>
            /\ BusAfter(k + 1) = bus_ops[k].before
            /\ SameCallAgain(k + 2) => BusAfter(k + 2) = BusAfter(k + 1)

\* C10 (amended): from every bus state S in which cb is not registered for n,
\* add_event_listener(n, cb) then remove_event_listener(n, cb) yields exactly
\* S (same names, same callbacks in the same order), and one more
\* remove_event_listener(n, cb) leaves the bus unchanged.
C10_AddRemoveRestoresUnregistered ==
    \A k \in 1..Len(bus_ops) :
        (AddThenRemove(k) /\ ~RegisteredBefore(k)) =>
            /\ BusAfter(k + 1) = bus_ops[k].before
            /\ SameCallAgain(k + 2) => BusAfter(k + 2) = BusAfter(k + 1)

\* add, remove, remove of a callback that was not registered, on a bus that
\* holds another callback under the same name
C10_Witness ==
    \E k \in 1..Len(bus_ops) :
        /\ AddThenRemove(k)
        /\ SameCallAgain(k + 2)
        /\ ~RegisteredBefore(k)
        /\ Len(Listeners(bus_ops[k].before, bus_ops[k].name)) > 0

\* ------------------------------------------------------------ properties
EvIdx == 1..Len(events)
HasRecord(n) == surface[n].state # "none"
Created(n) == xdg[n].state # "absent"

\* the events that carry wid w, in emission order
RECURSIVE WithWid(_, _)
WithWid(log, w) ==
    IF log = <<>>
    THEN <<>>
    ELSE (IF Head(log).wid = w THEN <<Head(log)>> ELSE <<>>)
         \o WithWid(Tail(log), w)

\* the events of a log that have the name, in order
RECURSIVE Named(_, _)
Named(log, event_name) ==
    IF log = <<>>
    THEN <<>>
    ELSE (IF Head(log).name = event_name THEN <<Head(log)>> ELSE <<>>)
         \o Named(Tail(log), event_name)

EventsOf(w) == WithWid(events, w)
NamesOf(w) == [i \in 1..Len(EventsOf(w)) |-> EventsOf(w)[i].name]

IsEvent(i, event_name, w) ==
    events[i].name = event_name /\ events[i].wid = w

\* C1: for every surface whose new-surface(wid=n) was emitted and whose
\* underlying surface was destroyed (by its client or by cleanup()), exactly
\* one destroy(n) was emitted, with debug logging enabled or not, and no event
\* carrying wid n follows it.
C1_DestroyEmittedOnce ==
    \A n \in Natives :
        (HasRecord(n) /\ xdg[n].state = "destroyed") =>
            LET w == surface[n].wid
            IN  /\ Cardinality({i \in EvIdx : IsEvent(i, "destroy", w)}) = 1
                /\ \A i, j \in EvIdx :
                      (IsEvent(i, "destroy", w) /\ i < j) => events[j].wid # w

\* C2: the wid of each new-surface event is strictly greater than the wid of
\* every earlier new-surface event, and no wid is assigned to two surface
\* records, live or freed.
C2_WidStrictlyIncreasing ==
    /\ \A i, j \in EvIdx :
          (/\ i < j
           /\ events[i].name = "new-surface"
           /\ events[j].name = "new-surface") => events[i].wid < events[j].wid
    /\ \A n, m \in Natives :
          (n # m /\ HasRecord(n) /\ HasRecord(m)) => surface[n].wid # surface[m].wid

\* a surface was created after another one was destroyed
C2_Witness ==
    \E i, j, k \in EvIdx :
        /\ i < j /\ j < k
        /\ events[i].name = "new-surface"
        /\ IsEvent(j, "destroy", events[i].wid)
        /\ events[k].name = "new-surface"

\* the number of surfaces of role None or Toplevel created in the process up
\* to and including native handle n
ProcessOrdinal(n) ==
    Cardinality({m \in 1..n : Created(m) /\ xdg[m].created_role # "Popup"})

\* C3 (as claimed): the k-th surface of role None or Toplevel created after
\* the compositor is started receives wid = k.
C3_WidCountsFromStart ==
    \A n \in Natives :
        HasRecord(n) => surface[n].wid = xdg[n].ordinal

\* C3 (amended): the k-th surface of role None or Toplevel created in the
\* process, counted across initialize() / cleanup() cycles, receives wid = k
\* and its new-surface event carries k; a Popup gets no record and no wid.
C3_WidCountsInProcess ==
    \A n \in Natives :
        Created(n) =>
            IF xdg[n].created_role = "Popup"
            THEN ~HasRecord(n)
            ELSE /\ HasRecord(n)
                 /\ surface[n].wid = ProcessOrdinal(n)
                 /\ \E i \in EvIdx :
                       /\ IsEvent(i, "new-surface", ProcessOrdinal(n))
                       /\ events[i].args[1] = n

\* the first surface created after a second initialize() has wid 2
C3_Witness ==
    \E n \in Natives :
        HasRecord(n) /\ xdg[n].ordinal = 1 /\ surface[n].wid = 2

C5_NewSurfaceFirst ==
    \A j \in EvIdx :
        events[j].name # "new-surface" =>
            \E i \in 1..(j - 1) : IsEvent(i, "new-surface", events[j].wid)

\* a surface created without a toplevel has emitted an event after its
\* new-surface
C5_Witness ==
    \E n \in Natives :
        /\ HasRecord(n)
        /\ xdg[n].created_role = "None"
        /\ \E i, j \in EvIdx :
              /\ i < j
              /\ IsEvent(i, "new-surface", surface[n].wid)
              /\ events[j].wid = surface[n].wid

\* the surface of handle n had a record and is destroyed; it was never mapped
\* and its client made no toplevel request: it was created, committed and
\* destroyed
NeverMappedAndGone(n) ==
    /\ HasRecord(n)
    /\ xdg[n].state = "destroyed"
    /\ ~xdg[n].ever_mapped
    /\ ~xdg[n].requested

C7_CommitBeforeImage ==
    \A j \in EvIdx :
        events[j].name = "surface-image" =>
            /\ j > 1
            /\ IsEvent(j - 1, "commit", events[j].wid)
            /\ events[j - 1].args[1]

\* C7 (amended): the surface-image(wid, image) event of a commit is emitted
\* first, and the commit(wid, true, rects) event of that commit is the next
\* event on the bus.
C7_ImageBeforeCommit ==
    \A j \in EvIdx :
        events[j].name = "surface-image" =>
            /\ j < Len(events)
            /\ IsEvent(j + 1, "commit", events[j].wid)
            /\ events[j + 1].args[1]

\* a readback succeeded
C7_Witness ==
    \E j \in EvIdx : events[j].name = "surface-image"

\* C8: a toplevel that is initialized was sent the initial 800x600 set-size
\* and schedule-configure exactly once, however many commits it made before
\* its configured flag became true.
C8_OneInitialConfigure ==
    \A n \in Natives :
        (Alive(n) /\ HasRecord(n) /\ xdg[n].toplevel /\ xdg[n].initialized) =>
            xdg[n].configure_calls = 1

\* C9: an XDG surface whose role is Popup at new_xdg_surface time gets no
\* record (no scene-tree node, no linked listener), and no step taken on it,
\* at creation or later, emits an event, changes a record or takes a wid.
C9_PopupSilent ==
    /\ [](\A n \in Natives :
            (Created(n) /\ xdg[n].created_role = "Popup") => surface[n] = NoRecord)
    /\ [][\A n \in Natives :
            (/\ xdg'[n].created_role = "Popup"
             /\ xdg'[n] # xdg[n]
             /\ \A m \in Natives \ {n} : xdg'[m] = xdg[m])
            => (events' = events /\ surface' = surface /\ wid' = wid)]_vars

\* a surface created as a Popup has committed and is mapped
C9_Witness ==
    \E n \in Natives :
        /\ xdg[n].created_role = "Popup"
        /\ xdg[n].initialized
        /\ xdg[n].mapped

\* the list without its entry at position i
WithoutEntry(list, i) ==
    SubSeq(list, 1, i - 1) \o SubSeq(list, i + 1, Len(list))

\* position i holds the earliest registration of cb in the list
EarliestAt(list, cb, i) ==
    /\ i \in 1..Len(list)
    /\ list[i] = cb
    /\ \A j \in 1..(i - 1) : list[j] # cb

\* C11: emit(name) invokes every callback registered for name when emit is
\* called, once per registration and in registration order, and no callback
\* of another name; an emit that follows remove_event_listener(name, A) no
\* longer invokes that registration of A and invokes the others in their
\* original relative order.
C11_EmitInvokesAllRegistered ==
    \A k \in 1..Len(bus_ops) :
        bus_ops[k].op = "emit" =>
            /\ bus_ops[k].called = Listeners(bus_ops[k].before, bus_ops[k].name)
            /\ (/\ k > 1
                /\ bus_ops[k - 1].op = "remove"
                /\ bus_ops[k - 1].name = bus_ops[k].name) =>
                   \A i \in 1..Len(Listeners(bus_ops[k - 1].before, bus_ops[k].name)) :
                       EarliestAt(Listeners(bus_ops[k - 1].before, bus_ops[k].name),
                                  bus_ops[k - 1].callback, i) =>
                           bus_ops[k].called =
                               WithoutEntry(Listeners(bus_ops[k - 1].before,
                                                      bus_ops[k].name), i)

\* C12: remove_event_listener(name, cb) removes exactly one entry, the
\* earliest registration of cb under name, and leaves every other entry and
\* every other name as they were; removing a callback that is not registered,
\* or from an unknown name, changes nothing; and no event name ever maps to an
\* empty list.
C12_RemoveFirstOccurrenceOnly ==
    /\ \A name \in DOMAIN event_listeners : Len(event_listeners[name]) > 0
    /\ \A k \in 1..Len(bus_ops) :
          bus_ops[k].op = "remove" =>
              LET before == bus_ops[k].before
                  after == BusAfter(k)
                  list == Listeners(before, bus_ops[k].name)
              IN  /\ \A name \in EventNames \ {bus_ops[k].name} :
                        Listeners(after, name) = Listeners(before, name)
                  /\ (\A i \in 1..Len(list) : list[i] # bus_ops[k].callback)
                        => after = before
                  /\ \A i \in 1..Len(list) :
                        EarliestAt(list, bus_ops[k].callback, i) =>
                            /\ Listeners(after, bus_ops[k].name) = WithoutEntry(list, i)
                            /\ (bus_ops[k].name \in DOMAIN after) = (Len(list) > 1)

\* a callback registered twice around another one had one registration removed
C12_Witness ==
    \E k \in 1..Len(bus_ops) :
        /\ bus_ops[k].op = "remove"
        /\ LET list == Listeners(bus_ops[k].before, bus_ops[k].name)
           IN  \E i, j, h \in 1..Len(list) :
                  /\ i < j /\ j < h
                  /\ list[i] = bus_ops[k].callback
                  /\ list[h] = bus_ops[k].callback
                  /\ list[j] # bus_ops[k].callback

\* C13: cleanup() is idempotent. Every cleanup() or __dealloc__() leaves the
\* display handle NULL, and a call that finds it NULL (never initialized,
\* failed at display creation, already cleaned up) returns at once: it
\* destroys no client, unlinks and destroys nothing and changes no field; no
\* call ever destroys an object that does not exist.
C13_CleanupIdempotent ==
    /\ [](faults = {})
    /\ [][(Cleanup \/ Dealloc) =>
            /\ ~srv'.display
            /\ ~srv.display =>
                  /\ teardown' = <<"return">>
                  /\ objects' = objects
                  /\ xdg' = xdg /\ surface' = surface /\ events' = events
                  /\ Cleanup => srv' = srv]_vars

\* cleanup() was called on a compositor that had been initialized (its
\* compositor pointer is stale) and had no display any more
C13_Witness ==
    /\ teardown = <<"return">>
    /\ srv.compositor
    /\ ~srv.display
    /\ objects = {}

\* the rectangles (x, y, w, h) of the boxes of a damage region, in its order
RectsOf(damage) ==
    [i \in 1..Len(damage) |->
        <<damage[i].x1, damage[i].y1,
          damage[i].x2 - damage[i].x1, damage[i].y2 - damage[i].y1>>]

\* the last event emitted
LastEvent == events[Len(events)]

\* C14: the rects of every commit event are the rectangles of the surface's
\* buffer_damage region at that commit, whether the surface is mapped or
\* not; they are empty only when the region has no rectangle.
C14_RectsAreDamage ==
    probe.commits = 1 =>
        /\ LastEvent.name = "commit"
        /\ LastEvent.args[2] = RectsOf(probe.damage)

\* a uint32_t of four digits as an unbounded integer of eight digits
Widen(digits) == [i \in 1..8 |-> IF i <= Len(digits) THEN digits[i] ELSE 0]

\* C15: every surface-image(wid, img) has img.stride = 4 * img.width and a
\* pixel buffer of img.stride * img.height bytes, for every texture width and
\* height that fit the 32-bit unsigned fields.
C15_StrideAndSize ==
    \A i \in EvIdx :
        events[i].name = "surface-image" =>
            LET img == events[i].args[1]
            IN  /\ Widen(img.stride) =
                      MulDigits(Digits(img.width, 4), Digits(4, 4), 8)
                /\ Widen(img.pixels) =
                      MulDigits(img.stride, Digits(img.height, 4), 8)

\* C16: every rectangle (x, y, w, h) of a commit event has w >= 1 and
\* h >= 1, and the rectangles of a commit are those of the boxes of the
\* damage region, w = x2 - x1 and h = y2 - y1, in the order of the region.
C16_RectsPositive ==
    /\ \A i \in EvIdx :
          events[i].name = "commit" =>
              \A j \in 1..Len(events[i].args[2]) :
                  events[i].args[2][j][3] >= 1 /\ events[i].args[2][j][4] >= 1
    /\ (probe.commits = 1 /\ LastEvent.args[2] # <<>>) =>
          /\ Len(LastEvent.args[2]) = Len(probe.damage)
          /\ \A j \in 1..Len(probe.damage) :
                LastEvent.args[2][j] =
                    <<probe.damage[j].x1, probe.damage[j].y1,
                      probe.damage[j].x2 - probe.damage[j].x1,
                      probe.damage[j].y2 - probe.damage[j].y1>>

\* a commit event carries the two rectangles of a region of two boxes
C16_Witness ==
    /\ probe.commits = 1
    /\ Len(probe.damage) = 2
    /\ Len(LastEvent.args[2]) = 2

\* the commit finds no client buffer, no texture, or the read fails
ReadbackFails(buf) == ~buf.present \/ ~buf.has_texture \/ ~buf.readable

\* C17: a commit on a mapped surface that finds no client buffer, no texture
\* or a failing read emits no surface-image event and still emits
\* commit(wid, true, rects); the record and its listeners are as before, and
\* the next commit is processed (its surface-image and commit are emitted).
C17_FailedReadbackKeepsSurface ==
    (xdg[1].mapped /\ ReadbackFails(probe.buf)) =>
        /\ probe.commits >= 1 =>
              /\ Len(events) >= probe.mark + 1
              /\ events[probe.mark + 1].name = "commit"
              /\ events[probe.mark + 1].wid = surface[1].wid
              /\ events[probe.mark + 1].args[1] = TRUE
              /\ surface[1] = ProbeState(TRUE).surface[1]
        /\ probe.commits = 1 => Len(events) = probe.mark + 1
        /\ probe.commits = 2 =>
              /\ Len(events) = probe.mark + 3
              /\ events[probe.mark + 2].name = "surface-image"
              /\ events[probe.mark + 3].name = "commit"
              /\ events[probe.mark + 3].args[1] = TRUE

\* a commit whose read failed was followed by a commit whose read succeeded
C17_Witness ==
    /\ probe.commits = 2
    /\ xdg[1].mapped
    /\ probe.buf.has_texture
    /\ ~probe.buf.readable

\* C18: a failing step of initialize() raises an error naming that step and
\* no later step is run. Whenever the library failed in a step of the last
\* initialize() call (a creation that yielded NULL, or the backend failing to
\* start), the call raised the error of that step, ran no step after it and
\* did not crash.
C18_FailureRaises ==
    init_result.fail # "none" =>
        /\ init_result.raised = init_result.fail
        /\ init_result.later = {}
        /\ ~init_result.crashed

\* the elements of a sequence
Range(seq) == {seq[i] : i \in 1..Len(seq)}

\* the listeners a failed initialize() had linked: new_xdg_surface with the
\* xdg_shell, new_toplevel_decoration with the decoration manager, new_output
\* in its own step
LinkedUpTo(fail, objs) ==
    {l \in CleanupListeners :
        \/ l = "new_xdg_surface" /\ "xdg_shell" \in objs
        \/ l = "new_toplevel_decoration" /\ "decoration_manager" \in objs
        \/ l = "new_output" /\ StepIndex("new_output") < StepIndex(fail)}

\* C19: cleanup() after a failed initialize() tears down the partial state.
\* A cleanup() that follows an initialize() which raised destroys every
\* object created up to the failure (none exists afterwards), unlinks exactly
\* the listeners that had been linked, destroys no object that does not
\* exist, and leaves the display handle NULL and every listener unlinked.
C19_CleanupAfterFailure ==
    [][(Cleanup /\ init_result.raised # "none") =>
            /\ objects' = {}
            /\ faults' = {}
            /\ Range(teardown') \cap CleanupListeners
                    = LinkedUpTo(init_result.fail, objects)
            /\ objects # {} =>
                    (Range(teardown') \ (CleanupListeners \cup {"clients"}))
                        \cup (objects \cap DisplayGlobals) = objects
            /\ ~srv'.display
            /\ \A l \in CleanupListeners : ~srv'[l]]_vars

\* cleanup() ran on a compositor whose initialize() had failed after the
\* xdg_shell was created and before the cursor was: it unlinked
\* new_xdg_surface, destroyed the backend, and had no cursor to destroy
C19_Witness ==
    /\ "new_xdg_surface" \in Range(teardown)
    /\ "backend" \in Range(teardown)
    /\ "cursor" \notin Range(teardown)
    /\ "new_output" \notin Range(teardown)
    /\ ~srv.display
    /\ objects = {}

\* C20: every new_toplevel_decoration signal sets the decoration's mode to
\* SERVER_SIDE, whatever mode was requested, and emits exactly one event,
\* ssd(toplevel_ptr, flag), whose flag is true iff the requested mode was
\* SERVER_SIDE.
C20_DecorationForcedServerSide ==
    [][NewToplevelDecoration =>
          \E n \in Natives :
             /\ ~xdg[n].decoration.exists
             /\ xdg'[n].decoration.exists
             /\ xdg'[n].decoration.mode = "SERVER_SIDE"
             /\ Len(events') = Len(events) + 1
             /\ events'[Len(events')].name = "ssd"
             /\ events'[Len(events')].args =
                    <<n, xdg'[n].decoration.requested_mode = "SERVER_SIDE">>]_vars

\* a client asked for client-side decorations: ssd(ptr, false) was emitted
\* and the mode is server-side all the same
C20_Witness ==
    \E n \in Natives :
        /\ xdg[n].decoration.exists
        /\ xdg[n].decoration.requested_mode = "CLIENT_SIDE"
        /\ xdg[n].decoration.mode = "SERVER_SIDE"
        /\ Len(events) > 0
        /\ events[Len(events)].name = "ssd"
        /\ events[Len(events)].args = <<n, FALSE>>

\* the ssd events of a log
SsdEvents(log) == Named(log, "ssd")

\* initialize() returned and the library had not created a decoration manager
NoDecorationManager == running /\ ~srv.decoration_manager

\* C21: a failed decoration-manager creation does not fail initialize().
\* While a compositor runs whose decoration manager could not be created,
\* every other step of initialize() was run and succeeded, the
\* new_toplevel_decoration listener is not linked, no step emits an ssd
\* event, and the cleanup() that ends the run does not unlink that listener.
C21_DecorationManagerOptional ==
    /\ [](NoDecorationManager =>
            /\ init_result = NoResult
            /\ srv.display /\ srv.backend /\ srv.renderer /\ srv.allocator
            /\ srv.compositor /\ srv.xdg_shell /\ srv.scene
            /\ srv.output_layout /\ srv.cursor /\ srv.seat
            /\ srv.new_xdg_surface /\ srv.new_output
            /\ srv.socket_name \in SocketNames /\ srv.environ = srv.socket_name
            /\ ~srv.new_toplevel_decoration)
    /\ [][NoDecorationManager =>
            /\ SsdEvents(events') = SsdEvents(events)
            /\ Cleanup => /\ "new_toplevel_decoration" \notin Range(teardown')
                          /\ "new_xdg_surface" \in Range(teardown')]_vars

\* a compositor runs without a decoration manager and a client has a toplevel
C21_Witness ==
    /\ NoDecorationManager
    /\ srv.seat
    /\ ~srv.new_toplevel_decoration
    /\ \E n \in Natives : Alive(n) /\ xdg[n].toplevel

\* the bus after cb has removed itself from the name n times
RECURSIVE RemovedEntries(_, _, _, _)
RemovedEntries(bus, name, cb, n) ==
    IF n = 0 THEN bus
    ELSE RemovedEntries(remove_event_listener(bus, name, cb), name, cb, n - 1)

\* the position of the first raising callback of a list (0: none)
FirstRaise(list) ==
    IF \E i \in 1..Len(list) : raises(list[i])
    THEN CHOOSE i \in 1..Len(list) :
            raises(list[i]) /\ \A j \in 1..(i - 1) : ~raises(list[j])
    ELSE 0

\* C22: an exception of a callback leaves emit uncaught. An emit raises iff
\* it invoked a raising callback; that callback is the last one it invoked,
\* the callbacks registered after it are not invoked for the emission, and
\* emit leaves the registrations as they were (the only changes are the
\* removals that the invoked callbacks made themselves).
C22_CallbackExceptionPropagates ==
    \A k \in 1..Len(bus_ops) :
        bus_ops[k].op = "emit" =>
            LET called == bus_ops[k].called
                before == bus_ops[k].before
                list == Listeners(before, bus_ops[k].name)
                onces == Cardinality({i \in 1..Len(called) : called[i] = "Once"})
            IN  /\ bus_ops[k].raised <=> \E i \in 1..Len(called) : raises(called[i])
                /\ \A i \in 1..Len(called) : raises(called[i]) => i = Len(called)
                /\ bus_ops[k].raised =>
                      /\ BusAfter(k) = RemovedEntries(before, bus_ops[k].name,
                                                    "Once", onces)
                      /\ onces = 0 =>
                            /\ called = SubSeq(list, 1, FirstRaise(list))
                            /\ BusAfter(k) = before

\* an emit raised in the second of three callbacks: the third, B, was not
\* invoked
C22_Witness ==
    \E k \in 1..Len(bus_ops) :
        /\ bus_ops[k].op = "emit"
        /\ bus_ops[k].raised
        /\ Listeners(bus_ops[k].before, bus_ops[k].name) = <<"A", "Raise", "B">>
        /\ bus_ops[k].called = <<"A", "Raise">>
        /\ event_listeners = bus_ops[k].before

\* C23: cleanup() of a running compositor tears down in a fixed order: the
\* clients first (every surface alive is destroyed and its record freed by
\* the destroy handler), then the listeners new_xdg_surface, new_output and
\* (if linked) new_toplevel_decoration, then scene, cursor, output layout,
\* seat, allocator, renderer, backend, and the display last.
C23_CleanupOrder ==
    [][(Cleanup /\ running) =>
          /\ teardown' =
                <<"clients", "new_xdg_surface", "new_output">>
                \o (IF srv.new_toplevel_decoration
                    THEN <<"new_toplevel_decoration">> ELSE <<>>)
                \o <<"scene", "cursor", "output_layout", "seat", "allocator",
                     "renderer", "backend", "display">>
          /\ \A n \in Natives :
                Alive(n) =>
                    /\ xdg'[n].state = "destroyed"
                    /\ surface[n].state \notin {"none", "freed"} =>
                            /\ surface'[n].state = "freed"
                            /\ surface'[n].links = {}]_vars

\* cleanup() ran on a compositor with a decoration manager: eleven calls
\* between the clients and the display, and a client surface is destroyed
\* and its record freed
C23_Witness ==
    /\ Len(teardown) = 12
    /\ teardown[1] = "clients"
    /\ teardown[12] = "display"
    /\ ~srv.display
    /\ \E n \in Natives : xdg[n].state = "destroyed" /\ surface[n].state = "freed"
    /\ \A n \in Natives : ~Alive(n)

\* C24 (as stated): WAYLAND_DISPLAY is published with the socket, before the
\* backend is started. Whenever the last initialize() call added its socket
\* (it succeeded, or failed only at the backend start), WAYLAND_DISPLAY is the
\* socket name stored on the compositor.
C24_PublishedWithSocket ==
    init_result.fail = "start" => srv.environ = srv.socket_name

\* C24 (amended): WAYLAND_DISPLAY is published last, after the backend has
\* started. While the compositor runs, WAYLAND_DISPLAY is the socket name
\* stored on the compositor, which is one of the library's names; an
\* initialize() that fails, the backend start included, leaves
\* WAYLAND_DISPLAY as it was.
C24_PublishedAfterStart ==
    [][/\ running' => /\ srv'.socket_name \in SocketNames
                       /\ srv'.environ = srv'.socket_name
       /\ (Initialize /\ ~running') => srv'.environ = srv.environ]_vars

\* a second initialize() on the compositor failed at the backend start: the
\* compositor stores the new socket name and WAYLAND_DISPLAY still holds the
\* name of the first run
C24_Witness ==
    /\ init_result.fail = "start"
    /\ srv.socket_name = "wayland-1"
    /\ srv.environ = "wayland-0"

\* C25: the destroy handler unlinks a record completely and only where it is
\* linked. Whenever a record is freed, the listeners the handler unlinked
\* are exactly those that were linked (all eleven for a record created with
\* a toplevel, the four surface ones otherwise), and a freed record is in no
\* signal list.
C25_UnlinkedBeforeFree ==
    [][\A n \in Natives :
          /\ (surface[n].state = "live" /\ surface'[n].state = "freed") =>
                /\ destroy_unlinks(surface[n]) = surface[n].links
                /\ SurfaceSignals \subseteq surface[n].links
                /\ surface[n].links \in {SurfaceSignals,
                                          SurfaceSignals \cup ToplevelSignals}
          /\ surface'[n].state = "freed" => surface'[n].links = {}]_vars

\* a record created for a surface without a toplevel, which got its toplevel
\* later, was freed: its toplevel listeners were never linked
C25_Witness ==
    \E n \in Natives :
        /\ surface[n].state = "freed"
        /\ surface[n].links = {}
        /\ xdg[n].state = "destroyed"
        /\ xdg[n].created_role = "None"
        /\ xdg[n].ever_mapped

\* the two calls of one output_frame run for output o
FrameCalls(o) ==
    <<[call |-> "wlr_scene_output_commit", output |-> o],
      [call |-> "wlr_output_schedule_frame", output |-> o]>>

\* C26: the scene is committed only by the frame handler. Every step that
\* commits a scene output or schedules a frame is the frame signal of an
\* output that exists; every frame signal makes exactly one
\* wlr_scene_output_commit for its output, followed by one
\* wlr_output_schedule_frame for the same output; no surface signal, and no
\* resize(), focus() or keyboard focus() call, makes either call.
C26_FrameDrivesCommit ==
    [][/\ renders' # renders => OutputFrame
       /\ OutputFrame =>
             \E o \in Outputs :
                /\ outputs[o].state = "alive"
                /\ outputs[o].record = "live"
                /\ renders' = renders \o FrameCalls(o)
       /\ (NewXdgSurface \/ SurfaceCommit \/ SurfaceDestroy \/ EmbedderCall
             \/ KeyboardFocus \/ NewOutput \/ OutputDestroy) =>
             renders' = renders]_vars

\* one frame was handled, and a surface was created and committed without
\* another scene commit
C26_Witness ==
    /\ renders = FrameCalls(1)
    /\ \E i \in 1..Len(events) : events[i].name = "commit"

\* C27: the destroy handler of an output unlinks both listeners of its
\* record and frees it. Whenever an output is destroyed, its record is freed
\* with no listener left in a signal list, the records of the other outputs
\* and all surface records are as before, and no frame handler ever runs for
\* an output that is gone.
C27_OutputDestroyUnlinks ==
    [][/\ \A o \in Outputs :
             (outputs[o].state = "alive" /\ outputs'[o].state = "destroyed") =>
                /\ outputs[o].links = {"frame", "destroy"}
                /\ outputs'[o].record = "freed"
                /\ outputs'[o].links = {}
       /\ OutputDestroy =>
             /\ \E o \in Outputs :
                   /\ outputs'[o].state = "destroyed"
                   /\ \A p \in Outputs \ {o} : outputs'[p] = outputs[p]
             /\ surface' = surface
       /\ \A o \in Outputs :
             outputs'[o].record = "freed" => outputs'[o].links = {}
       /\ renders' # renders =>
             outputs[renders'[Len(renders')].output].record = "live"]_vars

\* the first output was destroyed, its record freed and unlinked, while the
\* second is alive and has had a frame since
C27_Witness ==
    /\ outputs[1].state = "destroyed"
    /\ outputs[1].record = "freed"
    /\ outputs[1].links = {}
    /\ outputs[2].record = "live"
    /\ outputs[2].links = {"frame", "destroy"}
    /\ renders = FrameCalls(2)

\* the surface-image events of a log
ImageEvents(log) == Named(log, "surface-image")

C29_KeyboardFocus ==
    [][KeyboardFocus =>
          seat_focus' = last_focus']_vars

\* C30: set_title and set_app_id are only logged. The step of a set_title or
\* set_app_id signal emits no event, invokes no callback and changes no
\* surface record or wid; every map event carries the title and the app_id
\* that the toplevel has when it is mapped, so a change shows in the next
\* map of the wid.
C30_TitleOnlyLogged ==
    [][/\ ToplevelSet =>
             /\ events' = events
             /\ calls' = calls
             /\ surface' = surface
             /\ wid' = wid
       /\ (SurfaceMap /\ events' # events) =>
             \E n \in Natives :
                /\ ~xdg[n].mapped /\ xdg'[n].mapped
                /\ events' = Append(events,
                       [name |-> "map", wid |-> surface[n].wid,
                        args |-> <<TitleOf(xdg[n]), AppIdOf(xdg[n]),
                                   xdg[n].geometry>>])]_vars

\* a toplevel was announced without a title, set its title, and was mapped:
\* new-surface carries "", the map event carries the title, and no event
\* lies between them but commits
C30_Witness ==
    \E i, j \in 1..Len(events) :
        /\ i < j
        /\ events[i].name = "new-surface"
        /\ events[i].args[2] = ""
        /\ events[j].name = "map"
        /\ events[j].wid = events[i].wid
        /\ events[j].args[1] = "xterm"
        /\ \A k \in (i + 1)..(j - 1) : events[k].name = "commit"

\* ------------------------------------------------- late toplevel (C31)
\* the events of the toplevel requests
RequestEvents == {"move", "resize", "maximize", "fullscreen", "minimize"}

\* the number of events of a log that have the name and carry wid w
CountOf(log, w, event_name) == Len(Named(WithWid(log, w), event_name))

\* the surface of handle n got its record while it had no toplevel object
LateToplevel(n) == HasRecord(n) /\ xdg[n].created_role = "None"

\* a step seen from a surface that got its record without a toplevel: no
\* request event carries its wid; its four surface listeners stay linked
\* while it is alive; a commit, a map, an unmap of it emits the event, and
\* its destruction emits destroy (when `destroy_emitted`)
LateToplevelStep(destroy_emitted) ==
    \A n \in Natives :
        LateToplevel(n) =>
            LET w == surface[n].wid
                More(event_name) ==
                    CountOf(events', w, event_name)
                        = CountOf(events, w, event_name) + 1
            IN  /\ \A i \in 1..Len(events') :
                      events'[i].wid = w => events'[i].name \notin RequestEvents
                /\ surface'[n].links \cap ToplevelSignals = {}
                /\ xdg'[n].state = "alive" =>
                      SurfaceSignals \subseteq surface'[n].links
                /\ xdg'[n].commits # xdg[n].commits => More("commit")
                /\ (~xdg[n].mapped /\ xdg'[n].mapped) => More("map")
                /\ (xdg[n].mapped /\ ~xdg'[n].mapped) => More("unmap")
                /\ (xdg[n].state = "alive" /\ xdg'[n].state = "destroyed"
                    /\ destroy_emitted) => More("destroy")

\* C31: a surface that has no toplevel object at new_xdg_surface time (role
\* None) and acquires the toplevel role later never has the request
\* subscriptions linked, so no move, resize, maximize, fullscreen or minimize
\* event is ever emitted for its wid, while map, unmap, commit and destroy
\* events for it are still emitted.
C31_LateToplevelEvents == [][LateToplevelStep(TRUE)]_vars

\* C31, the part that holds: the same, the destroy event being emitted when
\* debug logging is enabled
C31_LateToplevelEventsButDestroy == [][LateToplevelStep(debug)]_vars

\* a surface created with role None became a toplevel, its client made a
\* request that no listener heard, it committed and was destroyed, without
\* debug logging
C31_Witness ==
    \E n \in Natives :
        /\ LateToplevel(n)
        /\ xdg[n].unheard
        /\ xdg[n].commits = 1
        /\ xdg[n].state = "destroyed"
        /\ ~debug

\* ------------------------------------------------ re-entrant emit (C32)
\* the number of entries of a list equal to the callback
Entries(list, callback) ==
    Cardinality({i \in 1..Len(list) : list[i] = callback})

\* C32: emit is safe under re-entrant bus mutation. If, during emit(name), a
\* callback calls remove_event_listener for the same name (a one-shot
\* listener removing itself), every callback that was registered for the name
\* when the emit started and is not itself removed during the emission (of
\* the callbacks here: every one but Once) is still invoked exactly once per
\* registration by that emit, which returns.
C32_ReentrantEmitSafe ==
    \A k \in 1..Len(bus_ops) :
        (bus_ops[k].op = "emit" /\ ~bus_ops[k].raised) =>
            LET list == Listeners(bus_ops[k].before, bus_ops[k].name)
            IN  \A callback \in Callbacks \ {"Once"} :
                    Entries(bus_ops[k].called, callback)
                        = Entries(list, callback)

\* an emit found a one-shot listener registered before A: the one-shot was
\* invoked and removed itself, the emit returned, and A was not invoked
C32_Witness ==
    \E k \in 1..Len(bus_ops) :
        /\ bus_ops[k].op = "emit"
        /\ ~bus_ops[k].raised
        /\ Listeners(bus_ops[k].before, bus_ops[k].name) = <<"Once", "A">>
        /\ bus_ops[k].called = <<"Once">>
        /\ Listeners(BusAfter(k), bus_ops[k].name) = <<"A">>

\* ------------------------------------- embedder-facing operations (C33)
\* what a handle is when it is passed on: NULL, a pointer to an object that
\* has been destroyed, or a pointer to an object that exists
handle(pointer, object, objs) ==
    IF ~pointer THEN "null"
    ELSE IF object \in objs THEN "live" ELSE "destroyed"

\* get_event_loop_fd(): wl_event_loop_get_fd(self.event_loop); the event loop
\* is the display's and is destroyed with it
get_event_loop_fd(s, objs) ==
    <<<<"wl_event_loop_get_fd", "event_loop",
        handle(s.event_loop, "display", objs)>>>>

\* process_events(): wl_event_loop_dispatch(self.event_loop, 0), then
\* wl_display_flush_clients(self.srv.display)
process_events(s, objs) ==
    <<<<"wl_event_loop_dispatch", "event_loop",
        handle(s.event_loop, "display", objs)>>,
      <<"wl_display_flush_clients", "display",
        handle(s.display, "display", objs)>>>>

\* run(): wl_display_run(self.srv.display)
run(s, objs) ==
    <<<<"wl_display_run", "display", handle(s.display, "display", objs)>>>>

\* get_pointer_device(): WaylandPointer(self.srv.seat, self.srv.cursor); no
\* library function is called here
get_pointer_device(s, objs) ==
    <<<<"WaylandPointer", "seat", handle(s.seat, "seat", objs)>>,
      <<"WaylandPointer", "cursor", handle(s.cursor, "cursor", objs)>>>>

\* the functions of the compositor library among the callees
LibraryFunctions ==
    {"wl_event_loop_get_fd", "wl_event_loop_dispatch",
     "wl_display_flush_clients", "wl_display_run"}

\* a library function was given a handle that is NULL or destroyed
Misused(hs) ==
    \E i \in 1..Len(hs) : hs[i][1] \in LibraryFunctions /\ hs[i][3] # "live"

\* an operation that passes the handles hs on: a library function that is
\* given a NULL or destroyed handle has undefined behaviour, the process
\* crashes or goes on
Operation(hs) ==
    /\ handed' = hs
    /\ crashed' \in (IF Misused(hs) THEN BOOLEAN ELSE {FALSE})
    /\ running' = (running /\ ~crashed')
    /\ UNCHANGED <<debug, wid, srv, xdg, surface, events, event_listeners,
                   calls, created, signals, objects, teardown, faults,
                   init_result, probe, bus_ops, outputs, renders, seat_focus,
                   last_focus, wayland_keyboard>>

\* the embedder calls get_event_loop_fd(), at any time
GetEventLoopFd ==
    /\ ~crashed
    /\ Operation(get_event_loop_fd(srv, objects))

\* the embedder calls process_events(), at any time
ProcessEvents ==
    /\ ~crashed
    /\ Operation(process_events(srv, objects))

\* the embedder calls run(), at any time
Run ==
    /\ ~crashed
    /\ Operation(run(srv, objects))

\* the embedder calls get_pointer_device(), at any time
GetPointerDevice ==
    /\ ~crashed
    /\ Operation(get_pointer_device(srv, objects))

NextEmbedder ==
    \/ Initialize
    \/ Cleanup
    \/ Dealloc
    \/ GetEventLoopFd
    \/ ProcessEvents
    \/ Run
    \/ GetPointerDevice

SpecEmbedder == Init /\ [][NextEmbedder]_vars

\* C33: no embedder-facing operation uses a destroyed handle. After cleanup()
\* has completed, or before initialize() has succeeded, get_event_loop_fd(),
\* process_events(), run() and get_pointer_device() never pass a null or
\* already destroyed display, event-loop, seat or cursor handle to the
\* compositor library.
C33_NoDestroyedHandleUsed == ~Misused(handed)

\* process_events() was called after a cleanup() that followed a successful
\* initialize(): it dispatched on the event loop of the destroyed display and
\* flushed the clients of a NULL display
C33_Witness ==
    /\ teardown # <<>>
    /\ teardown # <<"return">>
    /\ ~srv.display
    /\ srv.compositor
    /\ handed = <<<<"wl_event_loop_dispatch", "event_loop", "destroyed">>,
                  <<"wl_display_flush_clients", "display", "null">>>>

\* ------------------------------------------------- keyboard layout (C34)
\* the embedder calls set_layout on its WaylandKeyboard
SetLayout ==
    /\ ~crashed
    /\ Len(wayland_keyboard.results) < MaxLayoutCalls
    /\ \E layout \in Layouts, context_ok \in BOOLEAN, keymap_ok \in BOOLEAN,
          survives \in BOOLEAN :
          /\ wayland_keyboard' = set_layout(wayland_keyboard, layout,
                                            context_ok, keymap_ok, survives)
          /\ crashed' =
                wayland_keyboard'.results[Len(wayland_keyboard'.results)].crashed
    /\ UNCHANGED <<debug, wid, srv, running, xdg, surface, events,
                   event_listeners, calls, created, signals, objects, teardown,
                   faults, init_result, probe, bus_ops, outputs, renders,
                   seat_focus, last_focus, handed>>

NextKeyboard ==
    \/ SetLayout

SpecKeyboard == Init /\ [][NextKeyboard]_vars

\* C34: set_layout holds no transient XKB object past its return. On every
\* exit of set_layout (success, context-creation failure, keymap-creation
\* failure) each XKB context and keymap it created has been released exactly
\* once, and on the failure exits the keyboard's keymap is left unchanged and
\* an error naming the cause is raised.
C34_NoTransientXkbObject ==
    \A k \in 1..Len(wayland_keyboard.results) :
        LET r == wayland_keyboard.results[k]
        IN  ~r.crashed =>
                /\ \A o \in r.created : Entries(r.released, o) = 1
                /\ \A o \in {"context", "keymap"} \ r.created :
                      Entries(r.released, o) = 0
                /\ r.error # <<>> =>
                      /\ r.created \subseteq {"context"}
                      /\ (k = Len(wayland_keyboard.results)) =>
                            wayland_keyboard.keymap = r.keymap_before

\* C34, the part that holds: the same for the calls in which the keymap
\* creation did not fail
C34_NoTransientButKeymapFailure ==
    \A k \in 1..Len(wayland_keyboard.results) :
        LET r == wayland_keyboard.results[k]
        IN  (~r.crashed /\ Len(r.error) < 2) =>
                /\ \A o \in r.created : Entries(r.released, o) = 1
                /\ r.error # <<>> =>
                      /\ r.created = {}
                      /\ (k = Len(wayland_keyboard.results)) =>
                            wayland_keyboard.keymap = r.keymap_before

\* a set_layout call raised the keymap error for its layout and returned
\* with the context it had created still holding its reference
C34_Witness ==
    /\ wayland_keyboard.contexts = 1
    /\ wayland_keyboard.keymaps = 0
    /\ Len(wayland_keyboard.results) = 1
    /\ wayland_keyboard.results[1].error = <<"failed to set keymap layout", "fr">>
    /\ wayland_keyboard.results[1].created = {"context"}
    /\ wayland_keyboard.results[1].released = <<>>
    /\ ~crashed

====
